---------------------------- MODULE Spec2Model ----------------------------
(***************************************************************************)
(* runtimetest: the conformance checker that compares the live state of a  *)
(* container with its config.json.  Two revisions of cmd/runtimetest are   *)
(* in the tree: main.go (TAP report, compliance levels; runner `run`) and  *)
(* the earlier revision (runner `validate`, with the mount-order check).   *)
(*                                                                         *)
(*   Spec           run + main of cmd/runtimetest/main.go                  *)
(*   SpecValidate   validate of the earlier revision                       *)
(*   SpecCaps       validateCapabilities                                   *)
(*   SpecMountOrder validateMountOrder, findNestedPaths, isMountPoint      *)
(*   SpecIDMap      validateUIDMappings / validateIDMappings               *)
(*   SpecProcess        validateGeneralProcess, validateLinuxProcess       *)
(*   SpecDevices        validateLinuxDevices                               *)
(*   SpecPaths          validateMaskedPaths, validateROPaths               *)
(*   SpecMountsExist    validateMountsExist                                *)
(*   SpecDefaultFS      validateDefaultFS                                  *)
(*   SpecDefaultDevices validateDefaultDevices, called repeatedly          *)
(*   SpecRerun          the concrete checks, twice in registry order       *)
(*   SpecPermuted       the concrete checks, in any order                  *)
(*   SpecGenerate       setupSpec of cmd/ocitools/generate.go: seccomp     *)
(*   SpecIsMountPoint   isMountPoint, statement by statement               *)
(*                                                                         *)
(* A Go string that the code splits or cleans is a sequence of one-        *)
(* character strings; a string that is only compared is a TLA+ string.     *)
(***************************************************************************)
EXTENDS Integers, Sequences, FiniteSets, TLC

VARIABLES
    \* ---- the runner (run / validate / main)
    pc,                 \* position of the process
    logLevelString,     \* --log-level
    complianceLevelString, \* --compliance-level
    configFile,         \* state of <path>/config.json on disk
    platform,           \* runtime.GOOS (run) or spec.Platform.OS (validate)
    complianceLevel,    \* rfc2119 level parsed from the flag
    idx,                \* index of the next validation in the current list
    calls,              \* the test functions invoked so far, with what each returned
    report,             \* lines written by the TAP writer
    validationErrors,   \* the multierror built by run
    runErr,             \* what run / validate returned
    exitStatus,         \* exit status of the process, NotExited while it runs
    probes,             \* write probes made so far
    \* ---- validateCapabilities
    capPc,              \* "idle", "start", "loop", "done"
    capabilities,       \* spec.Process.Capabilities: present, and its names
    processCaps,        \* live capability bits of the process that are set
    newPidOK,           \* whether capability.NewPid(0) can load them
    lastCap,            \* utils.LastCap(): highest capability of the platform
    capIdx,             \* index into capability.List()
    capErr,             \* the error validateCapabilities returned
    \* ---- validateMountOrder
    moPc,               \* "idle", "start", "find", "checkA", "checkB", "done"
    goos,               \* runtime.GOOS
    specMounts,         \* spec.Mounts: the declared destinations, in order
    mountinfos,         \* mount.GetMounts(): its error, or the live records
    mounts,             \* the cleaned destinations
    nested,             \* A, B, ok of findNestedPaths, and first
    moErr,              \* the error validateMountOrder returned
    \* ---- validateUIDMappings / validateGIDMappings
    idPc,               \* "idle", "start", "get", "compare", "done"
    linuxNil,           \* spec.Linux == nil
    property,           \* "linux.uidMappings" or "linux.gidMappings"
    mappings,           \* the declared mappings of that property
    mapFile,            \* /proc/self/{uid,gid}_map: readable, and its lines
    idMaps,             \* what getIDMappings returned
    idErr,              \* the error the check returned
    \* ---- validateGeneralProcess / validateLinuxProcess / validateProcess
    prPc,               \* "idle", "start", "general", "linux", "done"
    revision,           \* the revision of the process check: "main.go" or "earlier"
    process,            \* spec.Process
    os,                 \* the live process: what the operating system answers
    generalErr,         \* what validateGeneralProcess returned
    prErr,              \* what the registered process check returned
    \* ---- validateLinuxDevices
    devPc,              \* "idle", "start", "loop", "done"
    linuxDevices,       \* spec.Linux: nil, or its Devices in order
    stats,              \* os.Stat of each declared device path, in the same order
    devIdx,             \* index into spec.Linux.Devices
    devErr,             \* the error validateLinuxDevices returned
    \* ---- validateRootFS / validateMaskedPaths / validateROPaths
    pathPc,             \* "idle", "rootfs", "masked", "ropaths", "done"
    rootReadonly,       \* spec.Root.Readonly
    linuxPaths,         \* spec.Linux: nil, or its MaskedPaths and ReadonlyPaths
    writable,           \* the directories in which a file can be created
    content,            \* what opening and reading each masked path gives
    files,              \* the files of the filesystem
    probed,             \* every call of testWriteAccess: its path, and the file it created
    rootErr,            \* the error validateRootFS returned
    maskedErr,          \* the error validateMaskedPaths returned
    roErr,              \* the error validateROPaths returned
    \* ---- validateMountsExist / validateDefaultFS
    mntPc,              \* "idle", "start", "done"
    declaredMounts,     \* spec.Mounts: Destination, Type and Source of each, in order
    mountTable,         \* mount.GetMounts(): its error, or the live records in order
    mntErr,             \* the error the check returned
    \* ---- the registry over concrete checks; validateDefaultDevices
    regPc,              \* "idle", "run", "crashed", "done"
    terminal,           \* spec.Process.Terminal of the configuration passed to the check
    nodes,              \* os.Stat of each device path: "device", "file", "missing"
    defaultDevices,     \* the package variable defaultDevices
    regRun,             \* the number of the current run of the registry
    regCalled,          \* the checks called so far in the current run
    regOutcomes,        \* what each check returned in each run
    devCalls,           \* every call of validateDefaultDevices: its configuration, the paths it required, its error
    \* ---- setupSpec of the generate command: the seccomp flags
    genPc,              \* "idle", "setup", "done"
    flags,              \* the seccomp flags of the command line: what is set, and the values
    seccomp,            \* spec.Linux.Seccomp of the generator
    genErr,             \* the error setupSpec returned
    \* ---- isMountPoint, statement by statement
    mpPc,               \* "idle", "start", "scan", "done"
    mpPath,             \* the argument path of isMountPoint
    mpInfos,            \* the argument mountinfos: the live mountpoints in order
    mpMounts,           \* the local slice mounts
    mpPathindex,        \* the local pathindex, counted from 1; 0 for "not found"
    mpIdx,              \* the position in mounts of the record the scan is at
    mpHasParent,        \* the local hasParent
    mpResult            \* what isMountPoint returned: "none" before it has

runnerVars == <<pc, logLevelString, complianceLevelString, configFile, platform,
                complianceLevel, idx, calls, report, validationErrors, runErr,
                exitStatus, probes>>

capVars == <<capPc, capabilities, processCaps, newPidOK, lastCap, capIdx, capErr>>

\* The variables of the single checks, which the runner specifications leave idle.
moVars == <<moPc, goos, specMounts, mountinfos, mounts, nested, moErr>>

idVars == <<idPc, linuxNil, property, mappings, mapFile, idMaps, idErr>>

prVars == <<prPc, revision, process, os, generalErr, prErr>>

devVars == <<devPc, linuxDevices, stats, devIdx, devErr>>

pathVars == <<pathPc, rootReadonly, linuxPaths, writable, content, files, probed, rootErr, maskedErr, roErr>>

mntVars == <<mntPc, declaredMounts, mountTable, mntErr>>

regVars == <<regPc, terminal, nodes, defaultDevices, regRun, regCalled, regOutcomes, devCalls>>

genVars == <<genPc, flags, seccomp, genErr>>

mpVars == <<mpPc, mpPath, mpInfos, mpMounts, mpPathindex, mpIdx, mpHasParent, mpResult>>

checkVars == <<capVars, moVars, idVars, prVars, devVars, pathVars, mntVars, regVars, genVars, mpVars>>

\* What the specification of one check leaves alone.
notCapVars == <<runnerVars, moVars, idVars, prVars, devVars, pathVars, mntVars, regVars, genVars, mpVars>>
notMoVars == <<runnerVars, capVars, idVars, prVars, devVars, pathVars, mntVars, regVars, genVars, mpVars>>
notIdVars == <<runnerVars, capVars, moVars, prVars, devVars, pathVars, mntVars, regVars, genVars, mpVars>>
notPrVars == <<runnerVars, capVars, moVars, idVars, devVars, pathVars, mntVars, regVars, genVars, mpVars>>
notDevVars == <<runnerVars, capVars, moVars, idVars, prVars, pathVars, mntVars, regVars, genVars, mpVars>>
notPathVars == <<runnerVars, capVars, moVars, idVars, prVars, devVars, mntVars, regVars, genVars, mpVars>>
notMntVars == <<runnerVars, capVars, moVars, idVars, prVars, devVars, pathVars, regVars, genVars, mpVars>>
notRegVars == <<runnerVars, capVars, moVars, idVars, prVars, devVars, pathVars, mntVars, genVars, mpVars>>
notGenVars == <<runnerVars, capVars, moVars, idVars, prVars, devVars, pathVars, mntVars, regVars, mpVars>>
notMpVars == <<runnerVars, capVars, moVars, idVars, prVars, devVars, pathVars, mntVars, regVars, genVars>>

vars == <<runnerVars, checkVars>>

-----------------------------------------------------------------------------
(* Requirement strengths of the rfc2119 error package, weakest first.      *)
May == 0
Should == 1
Must == 2

\* error.ParseLevel: the three names; anything else is an error.
ParseLevel(s) ==
    CASE s = "may" -> [level |-> May, err |-> FALSE]
      [] s = "should" -> [level |-> Should, err |-> FALSE]
      [] s = "must" -> [level |-> Must, err |-> FALSE]
      [] OTHER -> [level |-> May, err |-> TRUE]

\* validate.NewError(validate.DefaultFilesystems, ...): "... SHOULD exist ...".
DefaultFilesystemsLevel == Should

-----------------------------------------------------------------------------
(* The registry built by run: test functions named by their descriptions.  *)
defaultValidations == <<"root filesystem", "hostname", "mounts">>

linuxValidations ==
    <<"capabilities", "default symlinks", "default file system",
      "default devices", "linux devices", "linux process", "masked paths",
      "oom score adj", "read only paths", "rlimits", "sysctls",
      "uid mappings", "gid mappings">>

\* The registry built by validate (earlier revision): bare functions.
validateDefaultValidations ==
    <<"validateRootFS", "validateProcess", "validateCapabilities",
      "validateHostname", "validateRlimits", "validateMountsExist",
      "validateMountOrder">>

validateLinuxValidations ==
    <<"validateDefaultFS", "validateDefaultDevices", "validateLinuxDevices",
      "validateSysctls", "validateMaskedPaths", "validateROPaths",
      "validateOOMScoreAdj">>

\* The package variable defaultDevices as declared (main.go, lines 51-59).
DefaultDevices ==
    <<"/dev/null", "/dev/zero", "/dev/full", "/dev/random", "/dev/urandom",
      "/dev/tty", "/dev/ptmx">>

\* logrus.ParseLevel accepts these names.
LogLevels == {"panic", "fatal", "error", "warn", "info", "debug"}

(* What a test function hands back to the runner: nil, a plain error, an   *)
(* *rfc2119.Error carrying a level, or a Go runtime panic.  probed says    *)
(* whether testWriteAccess was called on the way.                          *)
Nil == [kind |-> "nil", level |-> 0, probed |-> FALSE]
PlainError == [kind |-> "error", level |-> 0, probed |-> FALSE]
LevelError(l) == [kind |-> "rfc2119", level |-> l, probed |-> FALSE]
Panic == [kind |-> "panic", level |-> 0, probed |-> FALSE]
Probed(o) == [o EXCEPT !.probed = TRUE]

\* Tests of main.go that index or dereference without a guard:
\* parts[1] of an env entry (line 98), spec.Process.* of a config without
\* a process object (lines 178, 259, 422; Process is a pointer, line 475).
PanicTests == {"linux process", "capabilities", "rlimits", "default devices"}

\* Every return the named test of main.go can make.
TestOutcomes(description) ==
    CASE description = "root filesystem" ->
            \* validateRootFS: no probe unless root.readonly; an error only
            \* after a probe that succeeded.
            {Nil, Probed(Nil), Probed(PlainError)}
      [] description = "read only paths" ->
            {Nil, Probed(Nil), Probed(PlainError)}
      [] description = "default file system" ->
            \* validateDefaultFS returns nil or validate.NewError only.
            {Nil, LevelError(DefaultFilesystemsLevel)}
      [] description \in PanicTests -> {Nil, PlainError, Panic}
      [] OTHER -> {Nil, PlainError}

\* Tests of the earlier revision that index without a guard: parts[1]
\* (line 121) and cparts[i] in isParent (line 473).
ValidatePanicTests == {"validateProcess", "validateMountOrder"}

ValidateTestOutcomes(name) ==
    CASE name \in {"validateRootFS", "validateROPaths"} ->
            {Nil, Probed(Nil), Probed(PlainError)}
      [] name \in ValidatePanicTests -> {Nil, PlainError, Panic}
      [] OTHER -> {Nil, PlainError}

-----------------------------------------------------------------------------
(* loadSpecConfig.  os.Open on config.json, then json Decode.  An Open     *)
(* error other than "not exist" is not returned: Decode then reads from    *)
(* the nil *os.File, whose Read answers os.ErrInvalid.                      *)
osOpen(file) ==
    CASE file = "missing" -> [cf |-> "nil", err |-> "ENOENT"]
      [] file = "unreadable" -> [cf |-> "nil", err |-> "EACCES"]
      [] OTHER -> [cf |-> file, err |-> "nil"]

jsonDecode(cf) ==
    CASE cf = "nil" -> [spec |-> FALSE, err |-> "invalid argument"]
      [] cf = "malformed" -> [spec |-> FALSE, err |-> "json syntax error"]
      [] OTHER -> [spec |-> TRUE, err |-> "nil"]

\* loadSpecConfig without the test of Decode's error.
loadSpecConfigUncheckedDecode(file) ==
    LET o == osOpen(file) IN
    IF o.err = "ENOENT"
    THEN [spec |-> FALSE, err |-> "config.json not found"]
    ELSE [spec |-> jsonDecode(o.cf).spec, err |-> "nil"]

loadSpecConfig(file) ==
    LET o == osOpen(file) IN
    IF o.err = "ENOENT"
    THEN [spec |-> FALSE, err |-> "config.json not found"]
    ELSE jsonDecode(o.cf)

-----------------------------------------------------------------------------
(* run, lines 725-748: the grading of one returned error.                  *)
NoError == [kind |-> "nil", msg |-> "", errors |-> <<>>]

\* The comparison of line 730 without the type assertion: the level of any
\* error, which is the zero value for an error that carries none.
BelowComplianceUnasserted(out, level) == out.kind # "nil" /\ out.level < level

\* The comparison of line 730 with "<=" for "<".
BelowComplianceOrEqual(out, level) == out.kind = "rfc2119" /\ out.level <= level

\* line 730 / 742: e, ok := err.(*rfc2119.Error); ok && e.Level < complianceLevel
BelowCompliance(out, level) == out.kind = "rfc2119" /\ out.level < level

\* lines 729-734: what the loop body does to validationErrors.
AppendValidationError(errs, description, out, level) ==
    IF out.kind = "nil" \/ BelowCompliance(out, level)
    THEN errs
    ELSE Append(errs, [check |-> description, kind |-> out.kind, level |-> out.level])

\* t.Ok(err == nil, v.description): one numbered TAP line.
TestLine(rep, out, description) ==
    [kind |-> "test", ok |-> (out.kind = "nil"),
     n |-> Cardinality({i \in DOMAIN rep : rep[i].kind = "test"}) + 1,
     description |-> description]

HeaderLine == [kind |-> "header", ok |-> TRUE, n |-> 0, description |-> "TAP version 13"]

\* t.AutoPlan(): "1..N" for the N tests written.
PlanLine(rep) ==
    [kind |-> "plan", ok |-> TRUE,
     n |-> Cardinality({i \in DOMAIN rep : rep[i].kind = "test"}),
     description |-> ""]

-----------------------------------------------------------------------------
(* Spec: one execution of main.go, from main to the exit of the process.   *)
CapIdle ==
    /\ capPc = "idle"
    /\ capabilities = [present |-> FALSE, names |-> {}]
    /\ processCaps = {}
    /\ newPidOK = TRUE
    /\ lastCap = 0
    /\ capIdx = 1
    /\ capErr = [kind |-> "nil", set |-> "", cap |-> 0]

NoNested == [A |-> <<>>, B |-> <<>>, ok |-> FALSE, first |-> <<>>]

MoIdle ==
    /\ moPc = "idle"
    /\ goos = "linux"
    /\ specMounts = <<>>
    /\ mountinfos = [err |-> FALSE, infos |-> <<>>]
    /\ mounts = <<>>
    /\ nested = NoNested
    /\ moErr = [kind |-> "nil", path |-> <<>>]

IdIdle ==
    /\ idPc = "idle"
    /\ linuxNil = TRUE
    /\ property = "linux.uidMappings"
    /\ mappings = <<>>
    /\ mapFile = [readable |-> TRUE, lines |-> <<>>]
    /\ idMaps = [err |-> "nil", maps |-> <<>>]
    /\ idErr = "nil"

PrIdle ==
    /\ prPc = "idle"
    /\ revision = "main.go"
    /\ process = [Cwd |-> "", Env |-> <<>>, UID |-> 0, GID |-> 0, AdditionalGids |-> <<>>,
                  Args |-> <<>>, NoNewPrivileges |-> FALSE]
    /\ os = [cwd |-> [err |-> FALSE, dir |-> "/"], env |-> {}, uid |-> 0, gid |-> 0,
               groups |-> [err |-> FALSE, ids |-> {}],
               cmdline |-> [err |-> FALSE, bytes |-> <<>>],
               prctl |-> [errno |-> 0, ret |-> 0]]
    /\ generalErr = [kind |-> "nil", expected |-> <<>>, actual |-> <<>>]
    /\ prErr = [kind |-> "nil", expected |-> <<>>, actual |-> <<>>]

DevIdle ==
    /\ devPc = "idle"
    /\ linuxDevices = [nil |-> TRUE, Devices |-> <<>>]
    /\ stats = <<>>
    /\ devIdx = 1
    /\ devErr = [kind |-> "nil", index |-> 0, expected |-> <<>>, actual |-> <<>>]

PathIdle ==
    /\ pathPc = "idle"
    /\ rootReadonly = FALSE
    /\ linuxPaths = [nil |-> TRUE, MaskedPaths |-> <<>>, ReadonlyPaths |-> <<>>]
    /\ writable = {}
    /\ content = <<>>
    /\ files = {}
    /\ probed = <<>>
    /\ rootErr = [kind |-> "nil", path |-> <<>>]
    /\ maskedErr = [kind |-> "nil", path |-> <<>>]
    /\ roErr = [kind |-> "nil", path |-> <<>>]

MntIdle ==
    /\ mntPc = "idle"
    /\ declaredMounts = <<>>
    /\ mountTable = [err |-> FALSE, infos |-> <<>>]
    /\ mntErr = [kind |-> "nil", level |-> Must, mount |-> <<>>]

RegIdle ==
    /\ regPc = "idle"
    /\ terminal = FALSE
    /\ nodes = <<>>
    /\ defaultDevices = DefaultDevices
    /\ regRun = 1
    /\ regCalled = {}
    /\ regOutcomes = <<>>
    /\ devCalls = <<>>

GenIdle ==
    /\ genPc = "idle"
    /\ flags = [default |-> <<>>, arch |-> <<>>, syscalls |-> <<>>, allow |-> <<>>, errno |-> <<>>]
    /\ seccomp = [DefaultAction |-> "", Architectures |-> <<>>, Syscalls |-> <<>>]
    /\ genErr = "nil"

MpIdle ==
    /\ mpPc = "idle"
    /\ mpPath = <<>>
    /\ mpInfos = <<>>
    /\ mpMounts = <<>>
    /\ mpPathindex = 0
    /\ mpIdx = 1
    /\ mpHasParent = FALSE
    /\ mpResult = "none"

ChecksIdle == CapIdle /\ MoIdle /\ IdIdle /\ PrIdle /\ DevIdle /\ PathIdle /\ MntIdle /\ RegIdle /\ GenIdle /\ MpIdle

Init ==
    /\ ChecksIdle
    /\ pc = "start"
    /\ logLevelString \in {"error", "bogus"}
    /\ complianceLevelString \in {"may", "should", "must", "bogus"}
    /\ configFile \in {"missing", "unreadable", "malformed", "ok"}
    /\ platform \in {"linux", "darwin"}
    /\ complianceLevel = May
    /\ idx = 1
    /\ calls = <<>>
    /\ report = <<>>
    /\ validationErrors = <<>>
    /\ runErr = NoError
    /\ exitStatus = -1
    /\ probes = 0

\* run, lines 631-636.
ParseLogLevel ==
    /\ pc = "start"
    /\ IF logLevelString \in LogLevels
       THEN pc' = "load" /\ UNCHANGED runErr
       ELSE /\ pc' = "returned"
            /\ runErr' = [kind |-> "error", msg |-> "not a valid logrus Level", errors |-> <<>>]
    /\ UNCHANGED <<logLevelString, complianceLevelString, configFile, platform,
                   complianceLevel, idx, calls, report, validationErrors,
                   exitStatus, probes>>
    /\ UNCHANGED checkVars

\* run, lines 638-642.
LoadConfig ==
    /\ pc = "load"
    /\ LET r == loadSpecConfig(configFile) IN
       IF r.err # "nil"
       THEN /\ pc' = "returned"
            /\ runErr' = [kind |-> "error", msg |-> r.err, errors |-> <<>>]
       ELSE pc' = "setup" /\ UNCHANGED runErr
    /\ UNCHANGED <<logLevelString, complianceLevelString, configFile, platform,
                   complianceLevel, idx, calls, report, validationErrors,
                   exitStatus, probes>>
    /\ UNCHANGED checkVars

\* run, lines 644-725: the registry, the TAP header, the compliance level.
Setup ==
    /\ pc = "setup"
    /\ report' = Append(report, HeaderLine)
    /\ LET l == ParseLevel(complianceLevelString) IN
       complianceLevel' = IF l.err THEN Must ELSE l.level
    /\ validationErrors' = <<>>
    /\ idx' = 1
    /\ pc' = "default"
    /\ UNCHANGED <<logLevelString, complianceLevelString, configFile, platform,
                   calls, runErr, exitStatus, probes>>
    /\ UNCHANGED checkVars

\* One iteration of a loop of run (lines 726-735, 738-747): call the test,
\* write its TAP line, grade its error.  A panic ends the process at once.
RunTest(description, out, nextpc, nextidx) ==
    /\ calls' = Append(calls, [description |-> description, out |-> out])
    /\ probes' = IF out.probed THEN probes + 1 ELSE probes
    /\ IF out.kind = "panic"
       THEN /\ pc' = "exited"
            /\ exitStatus' = 2
            /\ UNCHANGED <<report, validationErrors, idx>>
       ELSE /\ report' = Append(report, TestLine(report, out, description))
            /\ validationErrors' =
                   AppendValidationError(validationErrors, description, out, complianceLevel)
            /\ pc' = nextpc
            /\ idx' = nextidx
            /\ UNCHANGED exitStatus
    /\ UNCHANGED <<logLevelString, complianceLevelString, configFile, platform,
                   complianceLevel, runErr>>
    /\ UNCHANGED checkVars

\* lines 726-737.
RunDefaultValidation ==
    /\ pc = "default"
    /\ \E out \in TestOutcomes(defaultValidations[idx]) :
          IF idx < Len(defaultValidations)
          THEN RunTest(defaultValidations[idx], out, "default", idx + 1)
          ELSE RunTest(defaultValidations[idx], out,
                       IF platform = "linux" THEN "linux" ELSE "plan", 1)

\* lines 737-748.
RunLinuxValidation ==
    /\ pc = "linux"
    /\ \E out \in TestOutcomes(linuxValidations[idx]) :
          IF idx < Len(linuxValidations)
          THEN RunTest(linuxValidations[idx], out, "linux", idx + 1)
          ELSE RunTest(linuxValidations[idx], out, "plan", 1)

\* lines 749-751.
AutoPlan ==
    /\ pc = "plan"
    /\ report' = Append(report, PlanLine(report))
    /\ runErr' = IF validationErrors = <<>>
                 THEN NoError
                 ELSE [kind |-> "multierror", msg |-> "", errors |-> validationErrors]
    /\ pc' = "returned"
    /\ UNCHANGED <<logLevelString, complianceLevelString, configFile, platform,
                   complianceLevel, idx, calls, validationErrors, exitStatus, probes>>
    /\ UNCHANGED checkVars

\* main logging the error of app.Run without exiting on it.
MainExitWithoutFatal ==
    /\ pc = "returned"
    /\ exitStatus' = 0
    /\ pc' = "exited"
    /\ UNCHANGED <<logLevelString, complianceLevelString, configFile, platform,
                   complianceLevel, idx, calls, report, validationErrors, runErr,
                   probes>>
    /\ UNCHANGED checkVars

\* main, lines 778-781: logrus.Fatal exits 1 on an error of app.Run.
MainExit ==
    /\ pc = "returned"
    /\ exitStatus' = IF runErr.kind = "nil" THEN 0 ELSE 1
    /\ pc' = "exited"
    /\ UNCHANGED <<logLevelString, complianceLevelString, configFile, platform,
                   complianceLevel, idx, calls, report, validationErrors, runErr,
                   probes>>
    /\ UNCHANGED checkVars

Next ==
    \/ ParseLogLevel
    \/ LoadConfig
    \/ Setup
    \/ RunDefaultValidation
    \/ RunLinuxValidation
    \/ AutoPlan
    \/ MainExit

Spec == Init /\ [][Next]_vars

-----------------------------------------------------------------------------
(* SpecValidate: one execution of the earlier revision, whose runner       *)
(* validate has no report and no compliance level.  platform is            *)
(* spec.Platform.OS of the loaded configuration.                           *)
InitValidate ==
    /\ ChecksIdle
    /\ pc = "start"
    /\ logLevelString \in {"error", "bogus"}
    /\ complianceLevelString = "must"
    /\ configFile \in {"missing", "unreadable", "malformed", "ok"}
    /\ platform \in {"linux", "windows", "solaris"}
    /\ complianceLevel = Must
    /\ idx = 1
    /\ calls = <<>>
    /\ report = <<>>
    /\ validationErrors = <<>>
    /\ runErr = NoError
    /\ exitStatus = -1
    /\ probes = 0

\* validate, lines 589-599.
ValidateLoadConfig ==
    /\ pc = "load"
    /\ LET r == loadSpecConfig(configFile) IN
       IF r.err # "nil"
       THEN /\ pc' = "returned"
            /\ runErr' = [kind |-> "error", msg |-> r.err, errors |-> <<>>]
       ELSE pc' = "vdefault" /\ UNCHANGED runErr
    /\ UNCHANGED <<logLevelString, complianceLevelString, configFile, platform,
                   complianceLevel, idx, calls, report, validationErrors,
                   exitStatus, probes>>
    /\ UNCHANGED checkVars

\* One iteration of a loop of validate (lines 621-625, 628-632): call the
\* test and return its error at once.
ValidateRunTest(name, out, nextpc, nextidx) ==
    /\ calls' = Append(calls, [description |-> name, out |-> out])
    /\ probes' = IF out.probed THEN probes + 1 ELSE probes
    /\ CASE out.kind = "panic" ->
              /\ pc' = "exited"
              /\ exitStatus' = 2
              /\ UNCHANGED <<runErr, idx>>
         [] out.kind = "error" ->
              /\ pc' = "returned"
              /\ runErr' = [kind |-> "error", msg |-> name, errors |-> <<>>]
              /\ UNCHANGED <<exitStatus, idx>>
         [] OTHER ->
              /\ pc' = nextpc
              /\ idx' = nextidx
              /\ UNCHANGED <<runErr, exitStatus>>
    /\ UNCHANGED <<logLevelString, complianceLevelString, configFile, platform,
                   complianceLevel, report, validationErrors>>
    /\ UNCHANGED checkVars

\* lines 621-627.
ValidateRunDefault ==
    /\ pc = "vdefault"
    /\ \E out \in ValidateTestOutcomes(validateDefaultValidations[idx]) :
          IF idx < Len(validateDefaultValidations)
          THEN ValidateRunTest(validateDefaultValidations[idx], out, "vdefault", idx + 1)
          ELSE ValidateRunTest(validateDefaultValidations[idx], out,
                               IF platform = "linux" THEN "vlinux" ELSE "returned", 1)

\* lines 627-635.
ValidateRunLinux ==
    /\ pc = "vlinux"
    /\ \E out \in ValidateTestOutcomes(validateLinuxValidations[idx]) :
          IF idx < Len(validateLinuxValidations)
          THEN ValidateRunTest(validateLinuxValidations[idx], out, "vlinux", idx + 1)
          ELSE ValidateRunTest(validateLinuxValidations[idx], out, "returned", 1)

NextValidate ==
    \/ ParseLogLevel
    \/ ValidateLoadConfig
    \/ ValidateRunDefault
    \/ ValidateRunLinux
    \/ MainExit

SpecValidate == InitValidate /\ [][NextValidate]_vars

-----------------------------------------------------------------------------
(* Properties of the runners.                                              *)

\* The configuration has loaded: both flags parsed and the document decoded.
ConfigLoaded == logLevelString \in LogLevels /\ configFile = "ok"

\* The names of the test functions invoked so far, in call order.
Called == [i \in DOMAIN calls |-> calls[i].description]

\* The checks that apply on the platform, in registry order.
Applicable ==
    IF platform = "linux" THEN defaultValidations \o linuxValidations
    ELSE defaultValidations

ValidateApplicable ==
    IF platform = "linux"
    THEN validateDefaultValidations \o validateLinuxValidations
    ELSE validateDefaultValidations

\* The requirement strength of a failure: the level its error carries; an
\* error (or a crash) that carries none is never below any level.
Strength(out) == IF out.kind = "rfc2119" THEN out.level ELSE Must

Failed(c) == c.out.kind # "nil"

\* C1 (as claimed, for validate): once the configuration has loaded, every
\* applicable check has been called exactly once, in registry order, when
\* the runner has finished: no failure keeps a later check from running.
C1_ValidateRunsEveryCheck ==
    (ConfigLoaded /\ pc = "exited") => Called = ValidateApplicable

\* C1 (as claimed, for run): when the process has ended after loading the
\* configuration, the report holds the header, one test line per applicable
\* check in registry order, each numbered and telling whether the check
\* returned nil, and then the plan line with their count.
C1_RunCompleteReport ==
    (ConfigLoaded /\ pc = "exited") =>
        /\ Called = Applicable
        /\ Len(report) = Len(Applicable) + 2
        /\ report[1] = HeaderLine
        /\ \A i \in DOMAIN Applicable :
              report[i + 1] = [kind |-> "test", ok |-> ~Failed(calls[i]), n |-> i,
                               description |-> Applicable[i]]
        /\ report[Len(report)].kind = "plan"
        /\ report[Len(report)].n = Len(Applicable)

\* C2: in every state of run, the aggregated error holds, once each and in
\* call order, exactly the failures whose strength is not below the
\* compliance level; every returned failure, retained or not, has a
\* "not ok" line in the report; and run returns nil exactly when nothing was
\* retained.
C2_AggregateIsRetainedFailures ==
    LET returned == SelectSeq(calls, LAMBDA c : c.out.kind # "panic")
        retained == SelectSeq(returned,
                        LAMBDA c : Failed(c) /\ ~(Strength(c.out) < complianceLevel))
        lines == SelectSeq(report, LAMBDA l : l.kind = "test")
    IN  /\ validationErrors =
              [i \in DOMAIN retained |->
                  [check |-> retained[i].description, kind |-> retained[i].out.kind,
                   level |-> retained[i].out.level]]
        /\ lines =
              [i \in DOMAIN returned |->
                  [kind |-> "test", ok |-> ~Failed(returned[i]), n |-> i,
                   description |-> returned[i].description]]
        /\ (ConfigLoaded /\ pc = "returned") =>
              /\ (runErr.kind = "nil") = (retained = <<>>)
              /\ runErr.errors = validationErrors

\* C2 witness: run has returned having dropped one failure below the level
\* and retained two others.
C2_Witness ==
    /\ pc = "returned"
    /\ \E i \in DOMAIN calls : BelowCompliance(calls[i].out, complianceLevel)
    /\ Len(validationErrors) = 2
    /\ runErr.kind = "multierror"

\* The failures retained in the aggregated error for the named check.
Retained(description, kind) ==
    \E j \in DOMAIN validationErrors :
        validationErrors[j].check = description /\ validationErrors[j].kind = kind

\* C29: at every compliance level, the lowest included, a failure whose error
\* carries no requirement strength is retained in the aggregated error, which
\* run then returns and main exits non-zero on; a returned failure that is
\* not retained is always a strength-tagged one, and only the default file
\* system check produces those.
C29_UntaggedFailureAlwaysRetained ==
    /\ \A i \in DOMAIN calls :
          LET c == calls[i] IN
          /\ c.out.kind = "error" =>
                /\ Retained(c.description, "error")
                /\ pc = "returned" => runErr.kind = "multierror"
                /\ pc = "exited" => exitStatus # 0
          /\ (c.out.kind \notin {"nil", "panic"} /\ ~Retained(c.description, c.out.kind)) =>
                /\ c.out.kind = "rfc2119"
                /\ c.out.level < complianceLevel
                /\ c.description = "default file system"

\* C29 witness: at the lowest compliance level the process has exited
\* non-zero with exactly one failure retained, an untagged one.
C29_WitnessLowest ==
    /\ pc = "exited"
    /\ complianceLevelString = "may"
    /\ complianceLevel = May
    /\ exitStatus = 1
    /\ Len(validationErrors) = 1
    /\ validationErrors[1].kind = "error"
    /\ Cardinality({i \in DOMAIN calls : calls[i].out.kind = "error"}) = 1

\* C29 witness: at level must the process has exited non-zero with the
\* tagged failure of the default file system check dropped and the one
\* untagged failure retained.
C29_Witness ==
    /\ pc = "exited"
    /\ complianceLevel = Must
    /\ exitStatus = 1
    /\ \E i \in DOMAIN calls :
          /\ calls[i].out.kind = "rfc2119"
          /\ ~Retained(calls[i].description, "rfc2119")
    /\ Len(validationErrors) = 1
    /\ validationErrors[1].kind = "error"

\* C3: when the process has ended after running checks, its exit status is
\* zero if and only if no check failed with a strength at or above the
\* compliance level.
C3_ExitZeroIffNoFatalFailure ==
    (ConfigLoaded /\ pc = "exited") =>
        ((exitStatus = 0) =
            ~(\E i \in DOMAIN calls :
                 Failed(calls[i]) /\ Strength(calls[i].out) >= complianceLevel))

\* C3 witness: exit status zero although a check failed, below the level.
C3_Witness ==
    /\ pc = "exited"
    /\ exitStatus = 0
    /\ \E i \in DOMAIN calls :
          Failed(calls[i]) /\ Strength(calls[i].out) < complianceLevel

\* C4: when config.json is missing, unreadable or malformed, no test
\* function is ever called, no report line is written, no write probe is
\* made, and the run ends with the load error and a non-zero exit status
\* ("config.json not found" for a missing file).
C4_ConfigErrorAbortsBeforeChecks ==
    (logLevelString \in LogLevels /\ configFile # "ok") =>
        /\ calls = <<>>
        /\ report = <<>>
        /\ probes = 0
        /\ pc \in {"start", "load", "returned", "exited"}
        /\ pc \in {"returned", "exited"} =>
              /\ runErr.kind = "error"
              /\ (configFile = "missing") = (runErr.msg = "config.json not found")
        /\ pc = "exited" => exitStatus = 1

\* C4 witness: the process has exited on an unreadable config.json.
C4_Witness ==
    /\ configFile = "unreadable"
    /\ logLevelString \in LogLevels
    /\ pc = "exited"
    /\ exitStatus = 1

-----------------------------------------------------------------------------
(* validateCapabilities (main.go, lines 165-245).                          *)

\* The runner at rest, for the specifications of single checks.
RunnerIdle ==
    /\ pc = "idle"
    /\ logLevelString = "error"
    /\ complianceLevelString = "must"
    /\ configFile = "ok"
    /\ platform = "linux"
    /\ complianceLevel = Must
    /\ idx = 1
    /\ calls = <<>>
    /\ report = <<>>
    /\ validationErrors = <<>>
    /\ runErr = NoError
    /\ exitStatus = -1
    /\ probes = 0

\* The initial states of the specification of one check: all else is idle.
IdleButCaps == RunnerIdle /\ MoIdle /\ IdIdle /\ PrIdle /\ DevIdle /\ PathIdle /\ MntIdle /\ RegIdle /\ GenIdle /\ MpIdle
IdleButMo == RunnerIdle /\ CapIdle /\ IdIdle /\ PrIdle /\ DevIdle /\ PathIdle /\ MntIdle /\ RegIdle /\ GenIdle /\ MpIdle
IdleButId == RunnerIdle /\ CapIdle /\ MoIdle /\ PrIdle /\ DevIdle /\ PathIdle /\ MntIdle /\ RegIdle /\ GenIdle /\ MpIdle
IdleButPr == RunnerIdle /\ CapIdle /\ MoIdle /\ IdIdle /\ DevIdle /\ PathIdle /\ MntIdle /\ RegIdle /\ GenIdle /\ MpIdle
IdleButDev == RunnerIdle /\ CapIdle /\ MoIdle /\ IdIdle /\ PrIdle /\ PathIdle /\ MntIdle /\ RegIdle /\ GenIdle /\ MpIdle
IdleButPath == RunnerIdle /\ CapIdle /\ MoIdle /\ IdIdle /\ PrIdle /\ DevIdle /\ MntIdle /\ RegIdle /\ GenIdle /\ MpIdle
IdleButMnt == RunnerIdle /\ CapIdle /\ MoIdle /\ IdIdle /\ PrIdle /\ DevIdle /\ PathIdle /\ RegIdle /\ GenIdle /\ MpIdle
IdleButReg == RunnerIdle /\ CapIdle /\ MoIdle /\ IdIdle /\ PrIdle /\ DevIdle /\ PathIdle /\ MntIdle /\ GenIdle /\ MpIdle
IdleButGen == RunnerIdle /\ CapIdle /\ MoIdle /\ IdIdle /\ PrIdle /\ DevIdle /\ PathIdle /\ MntIdle /\ RegIdle /\ MpIdle
IdleButMp == RunnerIdle /\ CapIdle /\ MoIdle /\ IdIdle /\ PrIdle /\ DevIdle /\ PathIdle /\ MntIdle /\ RegIdle /\ GenIdle

\* The most entries, declared names and live bits together, of an initial state.
MaxCapEntries == 3

\* The five sets in the order the loop body compares them.
CapSets == <<"bounding", "effective", "inheritable", "permitted", "ambient">>

\* capability.List(): the capabilities in ascending order (the first three).
CapabilityList == <<0, 1, 2>>

\* cap.String() of a capability.
CapString(cap) ==
    CASE cap = 0 -> "chown"
      [] cap = 1 -> "dac_override"
      [] cap = 2 -> "dac_read_search"

\* strings.ToUpper on those names.
ToUpper(str) ==
    CASE str = "chown" -> "CHOWN"
      [] str = "dac_override" -> "DAC_OVERRIDE"
      [] str = "dac_read_search" -> "DAC_READ_SEARCH"
      [] OTHER -> str

\* line 201: capKey := fmt.Sprintf("CAP_%s", strings.ToUpper(cap.String()))
capKey(cap) == "CAP_" \o ToUpper(CapString(cap))

\* lines 173-194: expectedCaps1..5, empty maps when Capabilities is nil.
expectedCaps(set) ==
    IF capabilities.present
    THEN {e.name : e \in {d \in capabilities.names : d.set = set}}
    ELSE {}

\* processCaps.Get(set, cap)
Get(set, cap) == [set |-> set, cap |-> cap] \in processCaps

\* The loop body without the ambient block (lines 234-241).
CapMismatchesNoAmbient(cap) ==
    SelectSeq(SubSeq(CapSets, 1, 4),
              LAMBDA set : (capKey(cap) \in expectedCaps(set)) # Get(set, cap))

\* lines 201-241: the sets whose expectedSet differs from actuallySet, in
\* the order of the five blocks; the body returns on the first.
CapMismatches(cap) ==
    SelectSeq(CapSets, LAMBDA set : (capKey(cap) \in expectedCaps(set)) # Get(set, cap))

\* The error of one block: "Expected ... not set" or "Unexpected ... set".
CapError(set, cap) ==
    [kind |-> IF capKey(cap) \in expectedCaps(set) THEN "expected not set"
              ELSE "unexpected set",
     set |-> set, cap |-> cap]

CapNil == [kind |-> "nil", set |-> "", cap |-> 0]

\* Names a configuration may declare: the three keys and one in lower case.
CapNames == {"CAP_CHOWN", "CAP_DAC_OVERRIDE", "CAP_DAC_READ_SEARCH", "cap_chown"}

DeclaredEntries == {[side |-> "declared", set |-> CapSets[i], name |-> n, cap |-> 0] :
                        i \in DOMAIN CapSets, n \in CapNames}

LiveEntries == {[side |-> "live", set |-> CapSets[i], name |-> "", cap |-> CapabilityList[j]] :
                    i \in DOMAIN CapSets, j \in DOMAIN CapabilityList}

\* The subsets of S with at most k elements.
RECURSIVE SubsetsUpTo(_, _)
SubsetsUpTo(S, k) ==
    IF k = 0 THEN {{}}
    ELSE LET smaller == SubsetsUpTo(S, k - 1) IN
         smaller \cup {t \cup {x} : t \in smaller, x \in S}

InitCaps ==
    /\ IdleButCaps
    /\ capPc = "start"
    /\ \E entries \in SubsetsUpTo(DeclaredEntries \cup LiveEntries, MaxCapEntries) :
          /\ \E present \in BOOLEAN :
                /\ present \/ ~(\E e \in entries : e.side = "declared")
                /\ capabilities =
                      [present |-> present,
                       names |-> {[set |-> e.set, name |-> e.name] :
                                     e \in {d \in entries : d.side = "declared"}}]
          /\ processCaps = {[set |-> e.set, cap |-> e.cap] :
                               e \in {l \in entries : l.side = "live"}}
    /\ newPidOK \in BOOLEAN
    /\ lastCap \in {1, 2}
    /\ capIdx = 1
    /\ capErr = CapNil

\* lines 166-194: LastCap, NewPid, the expected maps.
CapsNewPid ==
    /\ capPc = "start"
    /\ IF newPidOK
       THEN capPc' = "loop" /\ UNCHANGED capErr
       ELSE capPc' = "done" /\ capErr' = [kind |-> "newpid", set |-> "", cap |-> 0]
    /\ UNCHANGED <<capabilities, processCaps, newPidOK, lastCap, capIdx>>
    /\ UNCHANGED notCapVars

\* lines 196-244: one iteration over capability.List(), and the return.
CapsLoop ==
    /\ capPc = "loop"
    /\ LET cap == CapabilityList[capIdx]
           m == IF cap > lastCap THEN <<>> ELSE CapMismatches(cap)
       IN  IF m # <<>>
           THEN /\ capErr' = CapError(Head(m), cap)
                /\ capPc' = "done"
                /\ UNCHANGED capIdx
           ELSE /\ UNCHANGED capErr
                /\ IF capIdx < Len(CapabilityList)
                   THEN capIdx' = capIdx + 1 /\ capPc' = "loop"
                   ELSE capPc' = "done" /\ UNCHANGED capIdx
    /\ UNCHANGED <<capabilities, processCaps, newPidOK, lastCap>>
    /\ UNCHANGED notCapVars

NextCaps ==
    \/ CapsNewPid
    \/ CapsLoop

SpecCaps == InitCaps /\ [][NextCaps]_vars

\* The name under which the runtime specification lists a capability.
CapName(cap) ==
    CASE cap = 0 -> "CAP_CHOWN"
      [] cap = 1 -> "CAP_DAC_OVERRIDE"
      [] cap = 2 -> "CAP_DAC_READ_SEARCH"

DeclaredPresence(set, cap) ==
    capabilities.present /\ [set |-> set, name |-> CapName(cap)] \in capabilities.names

LivePresence(set, cap) == [set |-> set, cap |-> cap] \in processCaps

\* The check has returned a mismatch error that names (set, cap).
ReportedMismatch(set, cap) ==
    /\ capPc = "done"
    /\ capErr.kind \in {"expected not set", "unexpected set"}
    /\ capErr.set = set
    /\ capErr.cap = cap

\* The pairs <<cap, i>> (i the position of the set in CapSets), up to the
\* platform maximum, whose declared and live presence differ.
Differing ==
    {q \in {c \in 0..2 : c <= lastCap} \X DOMAIN CapSets :
        DeclaredPresence(CapSets[q[2]], q[1]) # LivePresence(CapSets[q[2]], q[1])}

-----------------------------------------------------------------------------
(* Paths.  A path is the sequence of its characters.                       *)

\* strings.Split(str, sep) for a one-character separator.
RECURSIVE Split(_, _)
Split(str, sep) ==
    IF \A i \in DOMAIN str : str[i] # sep
    THEN <<str>>
    ELSE LET k == CHOOSE i \in DOMAIN str :
                      str[i] = sep /\ \A j \in 1..(i - 1) : str[j] # sep
         IN  <<SubSeq(str, 1, k - 1)>> \o Split(SubSeq(str, k + 1, Len(str)), sep)

\* strings.Join(parts, "/")
RECURSIVE Join(_)
Join(parts) ==
    IF parts = <<>> THEN <<>>
    ELSE IF Len(parts) = 1 THEN parts[1]
    ELSE parts[1] \o <<"/">> \o Join(Tail(parts))

\* The elements filepath.Clean keeps: no empty element, no ".", and ".."
\* taken with the element before it (dropped at the root).
RECURSIVE CleanParts(_, _, _)
CleanParts(parts, kept, rooted) ==
    IF parts = <<>> THEN kept
    ELSE LET c == Head(parts) IN
         CASE c = <<>> \/ c = <<".">> -> CleanParts(Tail(parts), kept, rooted)
           [] c = <<".", ".">> ->
                IF kept # <<>> /\ kept[Len(kept)] # <<".", ".">>
                THEN CleanParts(Tail(parts), SubSeq(kept, 1, Len(kept) - 1), rooted)
                ELSE IF rooted
                     THEN CleanParts(Tail(parts), kept, rooted)
                     ELSE CleanParts(Tail(parts), Append(kept, c), rooted)
           [] OTHER -> CleanParts(Tail(parts), Append(kept, c), rooted)

\* filepath.Clean(path)
Clean(path) ==
    IF path = <<>> THEN <<".">>
    ELSE LET rooted == path[1] = "/"
             kept == CleanParts(Split(path, "/"), <<>>, rooted)
         IN  IF rooted THEN <<"/">> \o Join(kept)
             ELSE IF kept = <<>> THEN <<".">> ELSE Join(kept)

\* filepath.ToSlash(path): the separator of the platform becomes "/".
ToSlash(path) ==
    LET separator == IF goos = "windows" THEN "\\" ELSE "/" IN
    [i \in DOMAIN path |-> IF path[i] = separator THEN "/" ELSE path[i]]

-----------------------------------------------------------------------------
(* isParent, isMountPoint, findNestedPaths, validateMountOrder (earlier    *)
(* revision, lines 463-586).  A boolean result is "true" or "false";       *)
(* "panic" is the index-out-of-range of cparts[i] (line 473).              *)

\* isParent with strings.HasPrefix(child, parent) for the walk over the parts.
isParentByPrefix(parent, child) ==
    IF parent = child THEN "false"
    ELSE IF Len(parent) <= Len(child) /\ SubSeq(child, 1, Len(parent)) = parent
         THEN "true" ELSE "false"

\* lines 472-478: the loop over the parts of parent.
RECURSIVE isParentLoop(_, _, _)
isParentLoop(pparts, cparts, i) ==
    IF i > Len(pparts) THEN "true"
    ELSE IF i > Len(cparts) THEN "panic"
    ELSE IF cparts[i] # pparts[i] THEN "false"
    ELSE isParentLoop(pparts, cparts, i + 1)

isParent(parent, child) ==
    IF parent = child THEN "false"
    ELSE isParentLoop(Split(ToSlash(parent), "/"), Split(ToSlash(child), "/"), 1)

\* lines 498-511: the scan of mounts[pathindex+1:], from position i on.
RECURSIVE isMountPointScan(_, _, _, _)
isMountPointScan(path, others, i, hasParent) ==
    IF i > Len(others) THEN (IF hasParent THEN "false" ELSE "true")
    ELSE IF others[i] = path THEN isMountPointScan(path, others, i + 1, FALSE)
    ELSE LET p == isParent(others[i], path) IN
         IF p = "panic" THEN "panic"
         ELSE isMountPointScan(path, others, i + 1, hasParent \/ p = "true")

isMountPoint(path, infos) ==
    LET at == {i \in DOMAIN infos : infos[i].Mountpoint = path} IN
    IF at = {} THEN "false"
    ELSE LET pathindex == CHOOSE i \in at : \A j \in at : j <= i
             all == [i \in DOMAIN infos |-> infos[i].Mountpoint]
         IN  isMountPointScan(path, SubSeq(all, pathindex + 1, Len(all)), 1, FALSE)

\* lines 518-528: the two nested loops, pair k of Len(paths)^2 in loop order.
RECURSIVE findNestedPathsFrom(_, _)
findNestedPathsFrom(paths, k) ==
    IF k >= Len(paths) * Len(paths)
    THEN [A |-> <<>>, B |-> <<>>, ok |-> FALSE, panic |-> FALSE]
    ELSE LET parent == paths[(k \div Len(paths)) + 1]
             child == paths[(k % Len(paths)) + 1]
             p == isParent(parent, child)
         IN  IF p = "panic" THEN [A |-> <<>>, B |-> <<>>, ok |-> FALSE, panic |-> TRUE]
             ELSE IF p = "true" THEN [A |-> parent, B |-> child, ok |-> TRUE, panic |-> FALSE]
             ELSE findNestedPathsFrom(paths, k + 1)

findNestedPaths(paths) == findNestedPathsFrom(paths, 0)

\* lines 559-565: the first of the mounts that is A or B.
firstOf(A, B, ms) ==
    LET at == {i \in DOMAIN ms : ms[i] = A \/ ms[i] = B} IN
    IF at = {} THEN <<>> ELSE ms[CHOOSE i \in at : \A j \in at : i <= j]

\* The longest declared list and the longest live mount table.
MaxMounts == 2
MaxMountInfos == 3

\* Declared destinations: /, /a, /a/b, /a/b/, /ab, /a/../b.
Destinations ==
    {<<"/">>, <<"/", "a">>, <<"/", "a", "/", "b">>, <<"/", "a", "/", "b", "/">>,
     <<"/", "a", "b">>, <<"/", "a", "/", ".", ".", "/", "b">>}

\* Live mountpoints: /, /a, /a/b, /b.
Mountpoints == {<<"/">>, <<"/", "a">>, <<"/", "a", "/", "b">>, <<"/", "b">>}

SeqsUpTo(S, n) == UNION {[1..k -> S] : k \in 0..n}

MoNil == [kind |-> "nil", path |-> <<>>]
MoPanic == [kind |-> "panic", path |-> <<>>]

InitMountOrder ==
    /\ IdleButMo
    /\ moPc = "start"
    /\ goos \in {"linux", "windows"}
    /\ specMounts \in SeqsUpTo(Destinations, MaxMounts)
    /\ mountinfos \in
          {[err |-> FALSE, infos |-> [i \in DOMAIN ps |-> [Mountpoint |-> ps[i]]]] :
              ps \in SeqsUpTo(Mountpoints, MaxMountInfos)}
          \cup {[err |-> TRUE, infos |-> <<>>]}
    /\ mounts = <<>>
    /\ nested = NoNested
    /\ moErr = MoNil

\* lines 533-548: the platform test, the cleaned destinations, GetMounts.
MountOrderStart ==
    /\ moPc = "start"
    /\ IF goos = "windows"
       THEN moPc' = "done" /\ UNCHANGED <<mounts, moErr>>
       ELSE /\ mounts' = [i \in DOMAIN specMounts |-> Clean(specMounts[i])]
            /\ IF mountinfos.err
               THEN moPc' = "done" /\ moErr' = [kind |-> "getmounts", path |-> <<>>]
               ELSE moPc' = "find" /\ UNCHANGED moErr
    /\ UNCHANGED <<goos, specMounts, mountinfos, nested>>
    /\ UNCHANGED notMoVars

\* lines 553-565: findNestedPaths, and first.
MountOrderFind ==
    /\ moPc = "find"
    /\ LET r == findNestedPaths(mounts) IN
       CASE r.panic -> moPc' = "done" /\ moErr' = MoPanic /\ UNCHANGED nested
         [] ~r.panic /\ ~r.ok -> moPc' = "done" /\ UNCHANGED <<moErr, nested>>
         [] OTHER ->
              /\ nested' = [A |-> r.A, B |-> r.B, ok |-> TRUE,
                            first |-> firstOf(r.A, r.B, mounts)]
              /\ moPc' = "checkA"
              /\ UNCHANGED moErr
    /\ UNCHANGED <<goos, specMounts, mountinfos, mounts>>
    /\ UNCHANGED notMoVars

\* lines 567-572: A must always be a mountpoint.
MountOrderCheckA ==
    /\ moPc = "checkA"
    /\ LET ok == isMountPoint(nested.A, mountinfos.infos) IN
       CASE ok = "panic" -> moPc' = "done" /\ moErr' = MoPanic
         [] ok = "false" ->
              moPc' = "done" /\ moErr' = [kind |-> "expected mountpoint", path |-> nested.A]
         [] OTHER -> moPc' = "checkB" /\ UNCHANGED moErr
    /\ UNCHANGED <<goos, specMounts, mountinfos, mounts, nested>>
    /\ UNCHANGED notMoVars

\* lines 574-585: B must be a mountpoint iff A was first.
MountOrderCheckB ==
    /\ moPc = "checkB"
    /\ LET ok == isMountPoint(nested.B, mountinfos.infos) IN
       CASE ok = "panic" -> moErr' = MoPanic
         [] ok = "false" /\ nested.first = nested.A ->
              moErr' = [kind |-> "expected mountpoint", path |-> nested.B]
         [] ok = "true" /\ nested.first = nested.B ->
              moErr' = [kind |-> "expected not mountpoint", path |-> nested.B]
         [] OTHER -> UNCHANGED moErr
    /\ moPc' = "done"
    /\ UNCHANGED <<goos, specMounts, mountinfos, mounts, nested>>
    /\ UNCHANGED notMoVars

NextMountOrder ==
    \/ MountOrderStart
    \/ MountOrderFind
    \/ MountOrderCheckA
    \/ MountOrderCheckB

SpecMountOrder == InitMountOrder /\ [][NextMountOrder]_vars

\* A is a strict ancestor of B, for two cleaned absolute paths: B continues
\* A with a separator and more (everything but / lies under /).
StrictAncestor(A, B) ==
    /\ A # B
    /\ \/ A = <<"/">>
       \/ /\ Len(A) < Len(B)
          /\ SubSeq(B, 1, Len(A)) = A
          /\ B[Len(A) + 1] = "/"

\* The cleaned declared destinations, in declared order.
Declared == [i \in DOMAIN specMounts |-> Clean(specMounts[i])]

\* Two declared destinations are in a strict ancestor/descendant relation.
DeclaredNested ==
    LET d == Declared IN
    \E i, j \in DOMAIN d : StrictAncestor(d[i], d[j])

\* P is an active mountpoint of the live table: P occurs in it, and no
\* record after the last occurrence of P lies at a strict ancestor of P.
Active(P) ==
    LET live == mountinfos.infos
        at == {i \in DOMAIN live : live[i].Mountpoint = P}
    IN  /\ at # {}
        /\ \A i \in DOMAIN live :
              (\A j \in at : j < i) => ~StrictAncestor(live[i].Mountpoint, P)

\* C6 (as claimed): when the declared destinations nest and the mount table
\* was read, the topology check completes, and for the pair (A, B) it took
\* it passes iff A is an active mountpoint and (B is one iff first = A).
C6_TopologyRule ==
    (moPc = "done" /\ goos # "windows" /\ ~mountinfos.err /\ DeclaredNested) =>
        /\ moErr.kind # "panic"
        /\ nested.ok =>
              ((moErr.kind = "nil") =
                  (Active(nested.A) /\ (Active(nested.B) = (nested.first = nested.A))))

\* C7: when no declared destination, cleaned, is a strict ancestor or
\* descendant of another, the topology check returns nil for every mount
\* table that could be read.
C7_NoNestingPasses ==
    (moPc = "done" /\ ~mountinfos.err /\ ~DeclaredNested) => moErr = MoNil

\* C7 witness: the check has passed on linux for two different declared
\* destinations that do not nest, over a live table that lists a mountpoint
\* and then an ancestor of it.
C7_Witness ==
    /\ moPc = "done"
    /\ goos = "linux"
    /\ Len(specMounts) = 2
    /\ Declared[1] # Declared[2]
    /\ ~DeclaredNested
    /\ moErr = MoNil
    /\ \E k, l \in DOMAIN mountinfos.infos :
          k < l /\ StrictAncestor(mountinfos.infos[l].Mountpoint,
                                  mountinfos.infos[k].Mountpoint)

\* C8 (as claimed): when an ancestor A is declared before its descendant B
\* and the live table lists A and later B, with no record after that B at a
\* strict ancestor of B, the topology check returns nil.
C8_AncestorFirstInLiveOrderPasses ==
    (/\ moPc = "done"
     /\ ~mountinfos.err
     /\ LET d == Declared
            live == mountinfos.infos
        IN  \E i, j \in DOMAIN d :
               /\ i < j
               /\ StrictAncestor(d[i], d[j])
               /\ \E k, l \in DOMAIN live :
                     /\ k < l
                     /\ live[k].Mountpoint = d[i]
                     /\ live[l].Mountpoint = d[j]
                     /\ \A r \in DOMAIN live :
                           r > l => ~StrictAncestor(live[r].Mountpoint, d[j]))
    => moErr = MoNil

\* findNestedPaths has returned: validateMountOrder is past line 553.
FindNestedPathsReturned ==
    /\ moPc \in {"checkA", "checkB", "done"}
    /\ goos # "windows"
    /\ ~mountinfos.err

\* C28: for every list of cleaned paths, in any order, findNestedPaths
\* returns (A, B, true) with A and B of the list and A a strict ancestor of B
\* whenever two paths of the list are in a strict ancestor/descendant
\* relation (the descendant listed first and the ancestor / included), and
\* ("", "", false) otherwise; so never a path with itself, or /a with /ab.
C28_FindsPairIffNested ==
    FindNestedPathsReturned =>
        IF DeclaredNested
        THEN /\ nested.ok
             /\ StrictAncestor(nested.A, nested.B)
             /\ \E i, j \in DOMAIN Declared :
                   nested.A = Declared[i] /\ nested.B = Declared[j]
        ELSE /\ nested = NoNested
             /\ moErr.kind # "panic"

-----------------------------------------------------------------------------
(* getIDMappings, validateIDMappings, validateUIDMappings and              *)
(* validateGIDMappings (main.go, lines 502-575).  A line of the map file   *)
(* is the sequence of its characters.                                      *)

\* strings.Fields(strings.TrimSpace(line)): the maximal runs without a space.
RECURSIVE Fields(_)
Fields(line) ==
    IF line = <<>> THEN <<>>
    ELSE IF Head(line) = " " THEN Fields(Tail(line))
    ELSE LET ends == {i \in DOMAIN line : line[i] = " "}
             n == IF ends = {} THEN Len(line)
                  ELSE (CHOOSE i \in ends : \A j \in ends : i <= j) - 1
         IN  <<SubSeq(line, 1, n)>> \o Fields(SubSeq(line, n + 1, Len(line)))

\* The value of a digit, or 16 for a character that is none.
DigitValue(c) ==
    CASE c = "0" -> 0 [] c = "1" -> 1 [] c = "2" -> 2 [] c = "3" -> 3
      [] c = "4" -> 4 [] c = "5" -> 5 [] c = "6" -> 6 [] c = "7" -> 7
      [] c = "8" -> 8 [] c = "9" -> 9 [] OTHER -> 16

\* A value of 32 bits is <<high half, low half>>, each half of 16 bits.
Half == 65536

U32(n) == <<n \div Half, n % Half>>

\* The value of the digits; a high half of Half stands for every value that
\* 32 bits cannot hold.
RECURSIVE DigitsValue(_, _, _)
DigitsValue(digits, base, acc) ==
    IF digits = <<>> \/ acc[1] >= Half THEN acc
    ELSE LET lo == acc[2] * base + DigitValue(Head(digits))
             hi == acc[1] * base + (lo \div Half)
         IN  DigitsValue(Tail(digits), base,
                         IF hi >= Half THEN <<Half, 0>> ELSE <<hi, lo % Half>>)

\* ParseUint of the digits in a given base, bitSize 32.
ParseDigits(digits, base) ==
    IF digits = <<>> \/ \E i \in DOMAIN digits : DigitValue(digits[i]) >= base
    THEN [err |-> "invalid syntax", value |-> U32(0)]
    ELSE LET v == DigitsValue(digits, base, U32(0)) IN
         IF v[1] >= Half
         THEN [err |-> "value out of range", value |-> U32(0)]
         ELSE [err |-> "nil", value |-> v]

\* strconv.ParseUint(token, 0, 32): the base read from the prefix.
ParseUint(token) ==
    IF Len(token) >= 2 /\ token[1] = "0" /\ token[2] \in {"x", "X"}
    THEN ParseDigits(SubSeq(token, 3, Len(token)), 16)
    ELSE IF Len(token) >= 2 /\ token[1] = "0"
         THEN ParseDigits(Tail(token), 8)
         ELSE ParseDigits(token, 10)

\* lines 516-533: one scanned line.
parseLine(line) ==
    LET idMap == Fields(line) IN
    IF Len(idMap) # 3 THEN [err |-> "invalid format", map |-> <<>>]
    ELSE LET hostID == ParseUint(idMap[1])
             containerID == ParseUint(idMap[2])
             mapSize == ParseUint(idMap[3])
         IN  IF hostID.err # "nil" THEN [err |-> hostID.err, map |-> <<>>]
             ELSE IF containerID.err # "nil" THEN [err |-> containerID.err, map |-> <<>>]
             ELSE IF mapSize.err # "nil" THEN [err |-> mapSize.err, map |-> <<>>]
             ELSE [err |-> "nil",
                   map |-> <<hostID.value, containerID.value, mapSize.value>>]

\* lines 510-536: the scan, from line i on.
RECURSIVE scanLines(_, _, _)
scanLines(lines, i, acc) ==
    IF i > Len(lines) THEN [err |-> "nil", maps |-> acc]
    ELSE LET r == parseLine(lines[i]) IN
         IF r.err # "nil" THEN [err |-> r.err, maps |-> <<>>]
         ELSE scanLines(lines, i + 1, Append(acc, r.map))

\* lines 502-537.  A mapping is <<HostID, ContainerID, Size>>.
getIDMappings(file) ==
    IF ~file.readable THEN [err |-> "open", maps |-> <<>>]
    ELSE scanLines(file.lines, 1, <<>>)

\* line 544 without its first test.
lengthDiffers(declared, live) == Len(declared) # Len(live)

\* line 544: len(mappings) != 0 && len(mappings) != len(idMaps)
lengthMismatch(declared, live) == Len(declared) # 0 /\ Len(declared) # Len(live)

\* line 550 without the comparison of Size.
sameIDs(v, cv) == v[1] = cv[1] /\ v[2] = cv[2]

\* line 550: the three fields are equal.
sameMapping(v, cv) == v[1] = cv[1] /\ v[2] = cv[2] /\ v[3] = cv[3]

\* lines 547-558: every declared mapping exists among the live ones.
allExist(declared, live) ==
    \A i \in DOMAIN declared : \E j \in DOMAIN live : sameMapping(declared[i], live[j])

\* The longest declared list and the longest map file.
MaxMappings == 2
MaxMapLines == 2

\* Declared mappings.
IDMappings ==
    {<<U32(0), U32(0), U32(1)>>, <<U32(1), U32(0), U32(1)>>, <<U32(0), U32(0), U32(8)>>,
     <<U32(0), U32(0), <<Half - 1, Half - 1>>>>}

\* Lines of a map file: "  0 0  1", "1 0 1", "0 0 010", "0 0 4294967295",
\* "0 0", "0 x 1", "0 0 4294967296".
LinePadded == <<" ", " ", "0", " ", "0", " ", " ", "1">>
LineOne == <<"1", " ", "0", " ", "1">>
LineOctal == <<"0", " ", "0", " ", "0", "1", "0">>
LineWhole == <<"0", " ", "0", " ", "4", "2", "9", "4", "9", "6", "7", "2", "9", "5">>
LineTwoFields == <<"0", " ", "0">>
LineBadField == <<"0", " ", "x", " ", "1">>
LineOutOfRange == <<"0", " ", "0", " ", "4", "2", "9", "4", "9", "6", "7", "2", "9", "6">>

MapLines ==
    {LinePadded, LineOne, LineOctal, LineWhole, LineTwoFields, LineBadField, LineOutOfRange}

InitIDMap ==
    /\ IdleButId
    /\ idPc = "start"
    /\ linuxNil \in BOOLEAN
    /\ property \in {"linux.uidMappings", "linux.gidMappings"}
    /\ mappings \in SeqsUpTo(IDMappings, MaxMappings)
    /\ linuxNil => mappings = <<>>
    /\ mapFile \in {[readable |-> TRUE, lines |-> ls] : ls \in SeqsUpTo(MapLines, MaxMapLines)}
                   \cup {[readable |-> FALSE, lines |-> <<>>]}
    /\ idMaps = [err |-> "nil", maps |-> <<>>]
    /\ idErr = "nil"

\* lines 563-575: nothing is checked without a linux section.
IDMapStart ==
    /\ idPc = "start"
    /\ idPc' = IF linuxNil THEN "done" ELSE "get"
    /\ UNCHANGED <<linuxNil, property, mappings, mapFile, idMaps, idErr>>
    /\ UNCHANGED notIdVars

\* lines 540-543.
IDMapGet ==
    /\ idPc = "get"
    /\ idMaps' = getIDMappings(mapFile)
    /\ IF idMaps'.err # "nil"
       THEN idPc' = "done" /\ idErr' = "can not get items"
       ELSE idPc' = "compare" /\ UNCHANGED idErr
    /\ UNCHANGED <<linuxNil, property, mappings, mapFile>>
    /\ UNCHANGED notIdVars

\* lines 544-560.
IDMapCompare ==
    /\ idPc = "compare"
    /\ idErr' = IF lengthMismatch(mappings, idMaps.maps) THEN "expected entries"
                ELSE IF ~allExist(mappings, idMaps.maps) THEN "not applied as expected"
                ELSE "nil"
    /\ idPc' = "done"
    /\ UNCHANGED <<linuxNil, property, mappings, mapFile, idMaps>>
    /\ UNCHANGED notIdVars

NextIDMap ==
    \/ IDMapStart
    \/ IDMapGet
    \/ IDMapCompare

SpecIDMap == InitIDMap /\ [][NextIDMap]_vars

-----------------------------------------------------------------------------
(* Claims C9 and C10, over SpecIDMap.  The live table is described from    *)
(* the file's text, independently of getIDMappings.                        *)

\* The triple each well-formed line of MapLines stands for.
LineTriple(line) ==
    CASE line = LinePadded -> <<<<0, 0>>, <<0, 0>>, <<0, 1>>>>
      [] line = LineOne    -> <<<<0, 1>>, <<0, 0>>, <<0, 1>>>>
      [] line = LineOctal  -> <<<<0, 0>>, <<0, 0>>, <<0, 8>>>>
      [] line = LineWhole  -> <<<<0, 0>>, <<0, 0>>, <<65535, 65535>>>>

WellFormedLines == {LinePadded, LineOne, LineOctal, LineWhole}

\* The table can be read and every line is three fields of 32 bits.
TableParseable ==
    /\ mapFile.readable
    /\ \A i \in DOMAIN mapFile.lines : mapFile.lines[i] \in WellFormedLines

LiveTriples == [i \in DOMAIN mapFile.lines |-> LineTriple(mapFile.lines[i])]

IDMapDone == idPc = "done"

\* C9 as stated: with an empty declared mapping list the uid/gid mapping
\* check passes for every live table, also one that cannot be read or whose
\* lines are not three-field triples.
C9_EmptyDeclaredAlwaysPasses ==
    (IDMapDone /\ mappings = <<>>) => idErr = "nil"

\* C9 amended: with an empty declared mapping list the check passes exactly
\* when the configuration has no linux section (the table is not read) or
\* the live table can be read and parsed, whatever its length and contents;
\* otherwise it fails because the live entries cannot be obtained.
C9_EmptyDeclaredPassesIfTableParses ==
    (IDMapDone /\ mappings = <<>>) =>
        /\ idErr = "nil" <=> (linuxNil \/ TableParseable)
        /\ idErr \in {"nil", "can not get items"}

\* C9 witness: empty declared list, a live table of two parsed entries, pass.
C9_Witness ==
    /\ IDMapDone
    /\ ~linuxNil
    /\ mappings = <<>>
    /\ TableParseable
    /\ Len(mapFile.lines) = MaxMapLines
    /\ Len(idMaps.maps) = MaxMapLines
    /\ idErr = "nil"

\* C10: for a non-empty declared list of length N and a parseable live
\* table, the check passes iff the live table has exactly N entries and every
\* declared triple equals some live triple, in any order.
C10_PassesIffSameLengthAndAllPresent ==
    (IDMapDone /\ ~linuxNil /\ mappings # <<>> /\ TableParseable) =>
        LET live == LiveTriples IN
        idErr = "nil" <=>
            /\ Len(live) = Len(mappings)
            /\ \A i \in DOMAIN mappings : \E j \in DOMAIN live : mappings[i] = live[j]

\* C10 witness: every declared triple is present in the live table, the
\* live table is longer, and the check fails.
C10_Witness ==
    /\ IDMapDone
    /\ ~linuxNil
    /\ Len(mappings) = 1
    /\ TableParseable
    /\ Len(mapFile.lines) = 2
    /\ \E j \in DOMAIN mapFile.lines : LineTriple(mapFile.lines[j]) = mappings[1]
    /\ idErr = "expected entries"

-----------------------------------------------------------------------------
(* The process checks: validateGeneralProcess and validateLinuxProcess     *)
(* (main.go, lines 84-163) and validateProcess of the earlier revision     *)
(* (lines 66-140).  An environment entry, a key and a value are sequences  *)
(* of characters; the byte 0 of the command line is "NUL".                 *)

ProcNil == [kind |-> "nil", expected |-> <<>>, actual |-> <<>>]
ProcPanic == [kind |-> "panic", expected |-> <<>>, actual |-> <<>>]
ProcError(kind, expected, actual) ==
    [kind |-> kind, expected |-> expected, actual |-> actual]

\* os.Getenv(key): the value, or the empty string when the key is unset.
Getenv(key) ==
    IF \E e \in os.env : e[1] = key
    THEN (CHOOSE e \in os.env : e[1] = key)[2]
    ELSE <<>>

\* main.go lines 85-93 (earlier revision 93-101): the working directory.
validateCwd ==
    IF process.Cwd = "" THEN ProcNil
    ELSE IF os.cwd.err THEN ProcError("getwd", <<>>, <<>>)
    ELSE IF os.cwd.dir # process.Cwd
         THEN ProcError("Cwd", <<process.Cwd>>, <<os.cwd.dir>>)
         ELSE ProcNil

\* main.go lines 95-103 (earlier revision 118-126): the entries from the i-th
\* on; parts[1] of an entry without "=" is out of range.
RECURSIVE validateEnv(_, _)
validateEnv(env, i) ==
    IF i > Len(env) THEN ProcNil
    ELSE LET parts == Split(env[i], "=") IN
         IF Len(parts) < 2 THEN ProcPanic
         ELSE LET key == parts[1]
                  expectedValue == parts[2]
                  actualValue == Getenv(key)
              IN  IF actualValue # expectedValue
                  THEN ProcError("Env", expectedValue, actualValue)
                  ELSE validateEnv(env, i + 1)

\* main.go lines 84-106.
validateGeneralProcess ==
    IF validateCwd.kind # "nil" THEN validateCwd
    ELSE validateEnv(process.Env, 1)

\* main.go lines 111-134 (earlier revision 68-91): uid, gid, groups.
validateUser ==
    IF os.uid # process.UID THEN ProcError("UID", <<process.UID>>, <<os.uid>>)
    ELSE IF os.gid # process.GID THEN ProcError("GID", <<process.GID>>, <<os.gid>>)
    ELSE IF os.groups.err THEN ProcError("getgroups", <<>>, <<>>)
    ELSE IF \E i \in DOMAIN process.AdditionalGids :
                process.AdditionalGids[i] \notin os.groups.ids
         THEN ProcError("Groups", process.AdditionalGids, <<os.groups.ids>>)
         ELSE ProcNil

\* bytes.Trim(b, "\x00")
RECURSIVE TrimNul(_)
TrimNul(b) ==
    IF b = <<>> THEN b
    ELSE IF Head(b) = "NUL" THEN TrimNul(Tail(b))
    ELSE IF b[Len(b)] = "NUL" THEN TrimNul(SubSeq(b, 1, Len(b) - 1))
    ELSE b

\* main.go lines 136-149 (earlier revision 103-116): the arguments.  The
\* message of line 147 gives the live argument as expected.
validateArgs ==
    IF os.cmdline.err THEN ProcError("cmdline", <<>>, <<>>)
    ELSE LET args == Split(TrimNul(os.cmdline.bytes), "NUL") IN
         IF Len(args) # Len(process.Args)
         THEN ProcError("Args length", <<Len(process.Args)>>, <<Len(args)>>)
         ELSE IF \E i \in DOMAIN args : args[i] # process.Args[i]
              THEN LET i == CHOOSE k \in DOMAIN args :
                                /\ args[k] # process.Args[k]
                                /\ \A j \in 1..(k - 1) : args[j] = process.Args[j]
                   IN  ProcError("Args", args[i], process.Args[i])
              ELSE ProcNil

\* main.go lines 151-160 (earlier revision 128-137): PR_GET_NO_NEW_PRIVS.
validateNoNewPrivileges ==
    IF os.prctl.errno # 0 THEN ProcError("prctl", <<>>, <<os.prctl.errno>>)
    ELSE IF process.NoNewPrivileges /\ os.prctl.ret # 1
         THEN ProcError("NoNewPrivileges", <<TRUE>>, <<FALSE>>)
    ELSE IF ~process.NoNewPrivileges /\ os.prctl.ret # 0
         THEN ProcError("NoNewPrivileges", <<FALSE>>, <<TRUE>>)
    ELSE ProcNil

\* The first of a sequence of results that is an error, or nil.
RECURSIVE FirstError(_)
FirstError(results) ==
    IF results = <<>> THEN ProcNil
    ELSE IF Head(results).kind # "nil" THEN Head(results)
    ELSE FirstError(Tail(results))

\* main.go lines 108-163: the result of validateGeneralProcess (line 109) is
\* dropped; only its panic goes on.
validateLinuxProcess(general) ==
    IF general.kind = "panic" THEN ProcPanic
    ELSE FirstError(<<validateUser, validateArgs, validateNoNewPrivileges>>)

\* earlier revision, lines 66-140.
validateProcess ==
    FirstError(<<validateUser, validateCwd, validateArgs,
                 validateEnv(process.Env, 1), validateNoNewPrivileges>>)

\* The longest declared environment, and the most attributes among user,
\* arguments and no-new-privileges that differ from the live process.
MaxEnv == 2
MaxDeviations == 1

\* Declared entries: F=b, F=, F=a=b, F, G=b.
EnvEntries ==
    {<<"F", "=", "b">>, <<"F", "=">>, <<"F", "=", "a", "=", "b">>, <<"F">>,
     <<"G", "=", "b">>}

\* Live environments, as sets of <<key, value>>: empty; F=b and G=b;
\* F=a=b and G=b; F=a.
Environs ==
    {{}, {<<<<"F">>, <<"b">>>>, <<<<"G">>, <<"b">>>>},
     {<<<<"F">>, <<"a", "=", "b">>>>, <<<<"G">>, <<"b">>>>}, {<<<<"F">>, <<"a">>>>}}

\* Declared arguments: none; sh -c; sh -x; sh and an empty argument.
ArgLists ==
    {<<>>, <<<<"s", "h">>, <<"-", "c">>>>, <<<<"s", "h">>, <<"-", "x">>>>,
     <<<<"s", "h">>, <<>>>>}

\* /proc/self/cmdline: empty; sh -c; sh and an empty argument; or unreadable.
Cmdlines ==
    {[err |-> FALSE, bytes |-> b] :
        b \in {<<>>, <<"s", "h", "NUL", "-", "c", "NUL">>, <<"s", "h", "NUL", "NUL">>}}
    \cup {[err |-> TRUE, bytes |-> <<>>]}

\* The declared and live user, arguments and no-new-privileges.
Attributes ==
    [UID : {0, 1}, GID : {0, 1}, AdditionalGids : {<<1>>, <<2>>},
     groups : {[err |-> FALSE, ids |-> {0, 1}], [err |-> TRUE, ids |-> {}]},
     Args : ArgLists, cmdline : Cmdlines,
     NoNewPrivileges : BOOLEAN,
     prctl : {[errno |-> 0, ret |-> 0], [errno |-> 0, ret |-> 1], [errno |-> 22, ret |-> 0]}]

\* How many of the user, the arguments and no-new-privileges differ.
Deviations(a) ==
    (IF a.UID # 0 \/ a.GID # 0 \/ a.groups.err
        \/ \E i \in DOMAIN a.AdditionalGids : a.AdditionalGids[i] \notin a.groups.ids
     THEN 1 ELSE 0)
    + (IF a.cmdline.err \/ Split(TrimNul(a.cmdline.bytes), "NUL") # a.Args
       THEN 1 ELSE 0)
    + (IF a.prctl.errno # 0 \/ (a.prctl.ret = 1) # a.NoNewPrivileges THEN 1 ELSE 0)

InitProcess ==
    /\ IdleButPr
    /\ prPc = "start"
    /\ revision \in {"main.go", "earlier"}
    /\ \E a \in {x \in Attributes : Deviations(x) <= MaxDeviations} :
       \E Cwd \in {"", "/", "/a"}, Env \in SeqsUpTo(EnvEntries, MaxEnv) :
       \E cwd \in {[err |-> FALSE, dir |-> "/"], [err |-> TRUE, dir |-> ""]},
          env \in Environs :
          /\ process = [Cwd |-> Cwd, Env |-> Env, UID |-> a.UID, GID |-> a.GID,
                        AdditionalGids |-> a.AdditionalGids, Args |-> a.Args,
                        NoNewPrivileges |-> a.NoNewPrivileges]
          /\ os = [cwd |-> cwd, env |-> env, uid |-> 0, gid |-> 0,
                   groups |-> a.groups, cmdline |-> a.cmdline, prctl |-> a.prctl]
    /\ generalErr = ProcNil
    /\ prErr = ProcNil

\* main.go line 109: validateLinuxProcess calls validateGeneralProcess.
ProcessGeneral ==
    /\ prPc = "start"
    /\ revision = "main.go"
    /\ generalErr' = validateGeneralProcess
    /\ prPc' = "linux"
    /\ UNCHANGED <<revision, process, os, prErr>>
    /\ UNCHANGED notPrVars

\* main.go lines 109-162: the rest of validateLinuxProcess.
ProcessLinux ==
    /\ prPc = "linux"
    /\ prErr' = validateLinuxProcess(generalErr)
    /\ prPc' = "done"
    /\ UNCHANGED <<revision, process, os, generalErr>>
    /\ UNCHANGED notPrVars

\* earlier revision, lines 66-140: validateProcess.
ProcessEarlier ==
    /\ prPc = "start"
    /\ revision = "earlier"
    /\ prErr' = validateProcess
    /\ prPc' = "done"
    /\ UNCHANGED <<revision, process, os, generalErr>>
    /\ UNCHANGED notPrVars

NextProcess ==
    \/ ProcessGeneral
    \/ ProcessLinux
    \/ ProcessEarlier

SpecProcess == InitProcess /\ [][NextProcess]_vars

-----------------------------------------------------------------------------
(* Claims C11 to C13, over SpecProcess.  KEY and VALUE of an entry are     *)
(* taken from its text, independently of validateEnv.                      *)

\* The position of the first "=" of an entry, 0 when it has none.
FirstEquals(entry) ==
    LET at == {i \in DOMAIN entry : entry[i] = "="} IN
    IF at = {} THEN 0 ELSE CHOOSE i \in at : \A j \in at : i <= j

KeyOf(entry) == SubSeq(entry, 1, FirstEquals(entry) - 1)
ValueOf(entry) == SubSeq(entry, FirstEquals(entry) + 1, Len(entry))

\* The live value of a key, empty when unset.
LiveValue(key) ==
    LET set == {e \in os.env : e[1] = key} IN
    IF set = {} THEN <<>> ELSE (CHOOSE e \in set : TRUE)[2]

EnvWellFormed == \A i \in DOMAIN process.Env : FirstEquals(process.Env[i]) > 0
EnvSingleEquals ==
    \A i \in DOMAIN process.Env :
        Cardinality({k \in DOMAIN process.Env[i] : process.Env[i][k] = "="}) = 1
EnvMismatches ==
    {i \in DOMAIN process.Env : LiveValue(KeyOf(process.Env[i])) # ValueOf(process.Env[i])}

\* Every attribute of the process but the environment matches.
OthersMatch ==
    /\ validateUser.kind = "nil"
    /\ validateArgs.kind = "nil"
    /\ validateNoNewPrivileges.kind = "nil"
    /\ validateCwd.kind = "nil"

ProcessDone == prPc = "done"

\* What the environment comparison returned.
EnvResult == IF revision = "main.go" THEN generalErr ELSE prErr

\* C11: with KEY the text before the first "=" and VALUE all the text after
\* it, the environment comparison succeeds iff for every declared entry the
\* live value of KEY equals VALUE; undeclared live variables play no part.
C11_EnvComparesWholeValue ==
    (ProcessDone /\ OthersMatch /\ EnvWellFormed) =>
        (EnvResult.kind = "nil" <=> EnvMismatches = {})

\* C12: when a declared entry's value differs from the live value of its key
\* and every other attribute matches, the process check is reported as
\* failed with the declared value as expected and the live value as actual.
C12_EnvMismatchIsReported ==
    (ProcessDone /\ OthersMatch /\ EnvSingleEquals /\ EnvMismatches # {}) =>
        /\ prErr.kind = "Env"
        /\ \E i \in EnvMismatches :
              /\ prErr.expected = ValueOf(process.Env[i])
              /\ prErr.actual = LiveValue(KeyOf(process.Env[i]))

\* C13: a declared working directory that differs from the live one makes
\* the process check fail; an empty cwd is not compared.
C13_CwdMismatchIsReported ==
    ProcessDone =>
        /\ (process.Cwd # "" /\ ~os.cwd.err /\ os.cwd.dir # process.Cwd)
              => prErr.kind # "nil"
        /\ process.Cwd = "" => prErr.kind \notin {"Cwd", "getwd"}

\* The live argument vector: /proc/<pid>/cmdline holds each argument followed
\* by a byte 0.
RECURSIVE Argv(_)
Argv(bytes) ==
    IF bytes = <<>> THEN <<>>
    ELSE LET ends == {i \in DOMAIN bytes : bytes[i] = "NUL"}
             k == IF ends = {} THEN Len(bytes) + 1
                  ELSE CHOOSE i \in ends : \A j \in ends : i <= j
         IN  <<SubSeq(bytes, 1, k - 1)>> \o Argv(SubSeq(bytes, k + 1, Len(bytes)))

\* The process check has come to the arguments and could read them.
ArgsCompared ==
    /\ ProcessDone
    /\ prErr.kind # "panic"
    /\ validateUser.kind = "nil"
    /\ revision = "earlier" => validateCwd.kind = "nil"
    /\ ~os.cmdline.err

\* C22: the argument comparison succeeds iff the live argument vector and
\* the declared list have the same length and the same token at every
\* position; a token mismatch is reported with the declared token as expected
\* and the live token as actual.
C22_ArgsEqualTokenForToken ==
    ArgsCompared =>
        LET live == Argv(os.cmdline.bytes) IN
        /\ (prErr.kind \notin {"Args length", "Args"}) <=> (live = process.Args)
        /\ prErr.kind = "Args" =>
              \E i \in DOMAIN process.Args :
                  /\ live[i] # process.Args[i]
                  /\ prErr.expected = process.Args[i]
                  /\ prErr.actual = live[i]

\* C23: whatever the configuration and the live state, the process check
\* returns nil or an error value to the runner; it never ends the process
\* with a runtime fault.
C23_CheckReturnsNilOrError ==
    /\ generalErr.kind # "panic"
    /\ ProcessDone => prErr.kind # "panic"

-----------------------------------------------------------------------------
(* validateLinuxDevices (main.go, lines 343-398).  The raw device          *)
(* identifier of 64 bits is [high, hi, lo]: its upper 32 bits, and the two *)
(* halves of 16 bits of its lower 32 bits.                                 *)

\* syscall.S_IFMT and the kinds of file below it.
S_IFMT == 61440
S_IFIFO == 4096
S_IFCHR == 8192
S_IFDIR == 16384
S_IFBLK == 24576
S_IFREG == 32768

\* os.ModePerm
ModePerm == 511

\* mode & S_IFMT: the four bits above the twelve permission bits.
FileType(mode) == ((mode \div S_IFIFO) % 16) * S_IFIFO

\* lines 356-366: the switch over fStat.Mode & syscall.S_IFMT.
devType(mode) ==
    CASE FileType(mode) = S_IFCHR -> "c"
      [] FileType(mode) = S_IFBLK -> "b"
      [] FileType(mode) = S_IFIFO -> "p"
      [] OTHER -> "unmatched"

\* line 367: devType != device.Type || (devType == "c" && device.Type == "u")
typeMismatch(observed, declared) ==
    observed # declared \/ (observed = "c" /\ declared = "u")

\* line 372: major := (dev >> 8) & 0xfff
major(dev) == (dev.lo \div 256) + (dev.hi % 16) * 256

\* line 373 without the upper part: dev & 0xff
minorLowByte(dev) == dev.lo % 256

\* line 373: minor := (dev & 0xff) | ((dev >> 12) & 0xfff00)
minor(dev) == (dev.lo % 256) + (dev.hi \div 16) * 256

DevNil == [kind |-> "nil", index |-> 0, expected |-> <<>>, actual |-> <<>>]
DevError(kind, i, expected, actual) ==
    [kind |-> kind, index |-> i, expected |-> expected, actual |-> actual]

\* lines 348-394: the body of the loop for the i-th device.
deviceError(i, device, st) ==
    IF st.err THEN DevError("stat", i, <<>>, <<>>)
    ELSE IF typeMismatch(devType(st.Mode), device.Type)
         THEN DevError("type", i, <<device.Type>>, <<devType(st.Mode)>>)
    ELSE IF devType(st.Mode) # "p"
            /\ (major(st.Rdev) # device.Major \/ minor(st.Rdev) # device.Minor)
         THEN DevError("device number", i, <<device.Major, device.Minor>>,
                       <<major(st.Rdev), minor(st.Rdev)>>)
    ELSE IF device.FileMode # <<>> /\ device.FileMode[1] % (ModePerm + 1) # st.Mode % (ModePerm + 1)
         THEN DevError("filemode", i, <<device.FileMode[1] % (ModePerm + 1)>>,
                       <<st.Mode % (ModePerm + 1)>>)
    ELSE IF device.UID # <<>> /\ device.UID[1] # st.Uid
         THEN DevError("uid", i, device.UID, <<st.Uid>>)
    ELSE IF device.GID # <<>> /\ device.GID[1] # st.Gid
         THEN DevError("gid", i, device.GID, <<st.Gid>>)
    ELSE DevNil

\* The longest list of declared devices.
MaxDevices == 2

Device(type, maj, min, mode, uid, gid) ==
    [Type |-> type, Major |-> maj, Minor |-> min, FileMode |-> mode, UID |-> uid, GID |-> gid]

Stat(mode, rdev) == [err |-> FALSE, Mode |-> mode, Rdev |-> rdev, Uid |-> 0, Gid |-> 0]
StatError == [err |-> TRUE, Mode |-> 0, Rdev |-> [high |-> 0, hi |-> 0, lo |-> 0], Uid |-> 0, Gid |-> 0]

\* Live modes: a character device 0666, a block device 0660, a fifo 0644, a
\* regular file 0644, a directory 0755.
CharMode == S_IFCHR + 438
Modes == {CharMode, S_IFBLK + 432, S_IFIFO + 420, S_IFREG + 420, S_IFDIR + 493}

\* Raw device identifiers: 1:3; 1:258; 4095:1048575; 1:3 with a bit above
\* the lower 32 set.
NullRdev == [high |-> 0, hi |-> 0, lo |-> 259]
Rdevs ==
    {NullRdev, [high |-> 0, hi |-> 16, lo |-> 258], [high |-> 0, hi |-> 65535, lo |-> 65535],
     [high |-> 1, hi |-> 0, lo |-> 259]}

\* Declared <<major, minor>>.
DeviceNumbers == {<<1, 3>>, <<1, 258>>, <<1, 2>>, <<4095, 1048575>>}

\* A declared device with the live node at its path: every declared kind
\* against every live mode; every declared number against every identifier,
\* for a character device and a fifo; the optional fields of a character
\* device; and a path that cannot be examined.
DeviceCases ==
    {[device |-> Device(t, 1, 3, <<>>, <<>>, <<>>), stat |-> Stat(m, NullRdev)] :
        t \in {"c", "b", "p", "u"}, m \in Modes}
    \cup {[device |-> Device(k[1], n[1], n[2], <<>>, <<>>, <<>>), stat |-> Stat(k[2], r)] :
            k \in {<<"c", CharMode>>, <<"p", S_IFIFO + 420>>}, n \in DeviceNumbers, r \in Rdevs}
    \cup {[device |-> Device("c", 1, 3, fm, uid, gid), stat |-> Stat(CharMode, NullRdev)] :
            fm \in {<<>>, <<438>>, <<420>>}, uid \in {<<>>, <<0>>, <<1>>}, gid \in {<<>>, <<1>>}}
    \cup {[device |-> Device("c", 1, 3, <<>>, <<>>, <<>>), stat |-> StatError]}

InitDevices ==
    /\ IdleButDev
    /\ devPc = "start"
    /\ \E nil \in BOOLEAN, cases \in SeqsUpTo(DeviceCases, MaxDevices) :
          /\ nil => cases = <<>>
          /\ linuxDevices = [nil |-> nil,
                             Devices |-> [i \in DOMAIN cases |-> cases[i].device]]
          /\ stats = [i \in DOMAIN cases |-> cases[i].stat]
    /\ devIdx = 1
    /\ devErr = DevNil

\* lines 344-346: nothing is checked without a linux section.
DevicesStart ==
    /\ devPc = "start"
    /\ devPc' = IF linuxDevices.nil THEN "done" ELSE "loop"
    /\ UNCHANGED <<linuxDevices, stats, devIdx, devErr>>
    /\ UNCHANGED notDevVars

\* lines 347-397: one iteration of the loop, or its end.
DevicesLoop ==
    /\ devPc = "loop"
    /\ IF devIdx > Len(linuxDevices.Devices)
       THEN devPc' = "done" /\ UNCHANGED <<devIdx, devErr>>
       ELSE LET e == deviceError(devIdx, linuxDevices.Devices[devIdx], stats[devIdx]) IN
            IF e.kind # "nil"
            THEN devPc' = "done" /\ devErr' = e /\ UNCHANGED devIdx
            ELSE devPc' = "loop" /\ devIdx' = devIdx + 1 /\ UNCHANGED devErr
    /\ UNCHANGED <<linuxDevices, stats>>
    /\ UNCHANGED notDevVars

NextDevices ==
    \/ DevicesStart
    \/ DevicesLoop

SpecDevices == InitDevices /\ [][NextDevices]_vars

-----------------------------------------------------------------------------
(* Claims C14 and C15, over SpecDevices.                                   *)

\* The devices whose iteration has run: those before devIdx, and the one
\* at devIdx when the loop returned an error for it.
Examined ==
    {i \in DOMAIN linuxDevices.Devices : i < devIdx \/ devErr.index = i}

\* The error the loop returned for the i-th device, "nil" when it went on.
ErrorAt(i) == IF devErr.index = i THEN devErr.kind ELSE "nil"

\* The kind of a live node, from its mode bits.
ObservedKind(mode) ==
    LET bits == mode - (mode % (ModePerm + 1)) - (((mode \div 512) % 8) * 512) IN
    IF bits = S_IFCHR THEN "c"
    ELSE IF bits = S_IFBLK THEN "b"
    ELSE IF bits = S_IFIFO THEN "p"
    ELSE "other"

\* The rule of the kind comparison.
KindRule(declared, observed) ==
    \/ declared \in {"c", "b", "p"} /\ observed = declared
    \/ declared = "u" /\ observed = "c"

\* Bit k of the lower 32 bits of a raw device identifier.
RECURSIVE Pow2(_)
Pow2(k) == IF k = 0 THEN 1 ELSE 2 * Pow2(k - 1)

Bit(dev, k) ==
    IF k < 16 THEN (dev.lo \div Pow2(k)) % 2 ELSE (dev.hi \div Pow2(k - 16)) % 2

RECURSIVE BitsValue(_, _, _)
BitsValue(dev, from, to) ==
    IF from > to THEN 0
    ELSE Bit(dev, from) + 2 * BitsValue(dev, from + 1, to)

ObservedMajor(dev) == BitsValue(dev, 8, 19)
ObservedMinor(dev) == BitsValue(dev, 0, 7) + 256 * BitsValue(dev, 20, 31)

\* C14: for each declared device the kind comparison succeeds iff the
\* declared kind is c, b or p and the observed kind is the same, or the
\* declared kind is u and the observed kind is a character device.
C14_KindComparison ==
    devPc = "done" =>
        \A i \in Examined :
            ~stats[i].err =>
                (ErrorAt(i) # "type" <=>
                    KindRule(linuxDevices.Devices[i].Type, ObservedKind(stats[i].Mode)))

\* C15: for a device that passed the kind comparison, the device-number
\* comparison fails iff the device is not a fifo and the major (bits 8-19)
\* or the minor (bits 0-7 below bits 20-31) differs from the declared one.
C15_DeviceNumberComparison ==
    devPc = "done" =>
        \A i \in Examined :
            (~stats[i].err /\ ErrorAt(i) # "type") =>
                (ErrorAt(i) = "device number" <=>
                    /\ ObservedKind(stats[i].Mode) # "p"
                    /\ \/ ObservedMajor(stats[i].Rdev) # linuxDevices.Devices[i].Major
                       \/ ObservedMinor(stats[i].Rdev) # linuxDevices.Devices[i].Minor)

\* C15 witness: a character device whose identifier has bits above bit 19
\* set passes with the minor that takes them in, and another fails.
C15_Witness ==
    /\ devPc = "done"
    /\ Len(linuxDevices.Devices) = 2
    /\ devErr.kind = "device number"
    /\ devErr.index = 2
    /\ stats[1].Rdev.hi >= 16
    /\ linuxDevices.Devices[1].Type = "c"
    /\ linuxDevices.Devices[1].Minor > 255
    /\ stats[2].Rdev.hi >= 16

-----------------------------------------------------------------------------
(* testWriteAccess, validateRootFS, validateMaskedPaths and validateROPaths *)
(* (main.go, lines 298-319 and 441-472), over a filesystem: the set of its *)
(* files and the set of the directories in which a file can be created.    *)

\* filepath.Join(dir, name): the non-empty elements joined by "/" and cleaned.
filepathJoin(dir, name) ==
    IF dir = <<>> THEN (IF name = <<>> THEN <<>> ELSE Clean(name))
    ELSE IF name = <<>> THEN Clean(dir)
    ELSE Clean(dir \o <<"/">> \o name)

\* The names ioutil.TempFile tries, prefix "Test" and a suffix.
TempNames == <<"Test1", "Test2", "Test3", "Test4">>

\* ioutil.TempFile(dir, "Test"): the first name that does not exist yet is
\* created in dir; its Name() is filepath.Join(dir, name).
TempFile(dir, fs) ==
    LET free == {k \in DOMAIN TempNames : filepathJoin(dir, <<TempNames[k]>>) \notin fs}
    IN  IF Clean(dir) \notin writable \/ free = {}
        THEN [err |-> TRUE, Name |-> <<>>]
        ELSE [err |-> FALSE,
              Name |-> filepathJoin(dir, <<TempNames[CHOOSE k \in free : \A j \in free : k <= j]>>)]

\* os.RemoveAll(target): target and everything below it.
RemoveAll(target, fs) ==
    {f \in fs : ~(f = target
                  \/ (Len(f) > Len(target) /\ SubSeq(f, 1, Len(target) + 1) = target \o <<"/">>))}

\* line 305: filepath.Join(path, tmpfile.Name())
removeJoined(path, name) == filepathJoin(path, name)

\* lines 298-308: the error, the filesystem afterwards, and the file created.
testWriteAccess(path, fs) ==
    LET tmpfile == TempFile(path, fs) IN
    IF tmpfile.err
    THEN [err |-> TRUE, files |-> fs, created |-> <<>>]
    ELSE [err |-> FALSE,
          files |-> RemoveAll(removeJoined(path, tmpfile.Name), fs \cup {tmpfile.Name}),
          created |-> tmpfile.Name]

PathNil == [kind |-> "nil", path |-> <<>>]
PathError(kind, path) == [kind |-> kind, path |-> path]

\* lines 310-319 without the test of line 311.
validateRootFSAlways(fs) ==
    LET w == testWriteAccess(<<"/">>, fs) IN
    [err |-> IF ~w.err THEN PathError("Rootfs should be readonly", <<"/">>) ELSE PathNil,
     files |-> w.files,
     probed |-> <<[path |-> <<"/">>, created |-> w.created]>>]

\* lines 310-319.
validateRootFS(fs) ==
    IF rootReadonly
    THEN LET w == testWriteAccess(<<"/">>, fs) IN
         [err |-> IF ~w.err THEN PathError("Rootfs should be readonly", <<"/">>) ELSE PathNil,
          files |-> w.files,
          probed |-> <<[path |-> <<"/">>, created |-> w.created]>>]
    ELSE [err |-> PathNil, files |-> fs, probed |-> <<>>]

\* lines 464-469: the loop over ReadonlyPaths, from the i-th on.
RECURSIVE validateROPathsFrom(_, _, _, _)
validateROPathsFrom(paths, i, fs, log) ==
    IF i > Len(paths) THEN [err |-> PathNil, files |-> fs, probed |-> log]
    ELSE LET w == testWriteAccess(paths[i], fs)
             entry == [path |-> paths[i], created |-> w.created]
         IN  IF ~w.err
             THEN [err |-> PathError("should be readonly", paths[i]),
                   files |-> w.files, probed |-> Append(log, entry)]
             ELSE validateROPathsFrom(paths, i + 1, w.files, Append(log, entry))

\* lines 460-472.
validateROPaths(fs) ==
    IF linuxPaths.nil THEN [err |-> PathNil, files |-> fs, probed |-> <<>>]
    ELSE validateROPathsFrom(linuxPaths.ReadonlyPaths, 1, fs, <<>>)

\* lines 446-452: os.Open and f.Read of one byte.  A file that a write probe
\* created and left is an empty file.
openAndRead(path) ==
    CASE path \in files -> [open |-> "nil", n |-> 0, err |-> "EOF"]
      [] content[path] = "missing" -> [open |-> "ENOENT", n |-> 0, err |-> "nil"]
      [] content[path] = "empty" -> [open |-> "nil", n |-> 0, err |-> "EOF"]
      [] content[path] = "data" -> [open |-> "nil", n |-> 1, err |-> "nil"]
      [] content[path] = "directory" -> [open |-> "nil", n |-> 0, err |-> "EISDIR"]

\* line 453 with a test of the count of bytes read.
readableByCount(r) == r.n > 0

\* line 453: err != io.EOF
readable(r) == r.err # "EOF"

\* lines 445-456: the loop over MaskedPaths, from the i-th on.
RECURSIVE validateMaskedPathsFrom(_, _)
validateMaskedPathsFrom(paths, i) ==
    IF i > Len(paths) THEN PathNil
    ELSE LET r == openAndRead(paths[i]) IN
         IF r.open # "nil" THEN PathError("open", paths[i])
         ELSE IF readable(r) THEN PathError("should not be readable", paths[i])
         ELSE validateMaskedPathsFrom(paths, i + 1)

\* lines 441-458.
validateMaskedPaths ==
    IF linuxPaths.nil THEN PathNil
    ELSE validateMaskedPathsFrom(linuxPaths.MaskedPaths, 1)

\* The longest lists of masked paths and of read-only paths.
MaxMaskedPaths == 2
MaxROPaths == 2

\* Declared read-only paths: /, /a, /a/, /b.
ROCandidates == {<<"/">>, <<"/", "a">>, <<"/", "a", "/">>, <<"/", "b">>}

\* The directories of the filesystem: /, /a, /b.
Directories == {<<"/">>, <<"/", "a">>, <<"/", "b">>}

\* Declared masked paths: /m, /n.
MaskedCandidates == {<<"/", "m">>, <<"/", "n">>}

InitPaths ==
    /\ IdleButPath
    /\ pathPc = "rootfs"
    /\ rootReadonly \in BOOLEAN
    /\ \E nil \in BOOLEAN :
       \E mp \in SeqsUpTo(MaskedCandidates, MaxMaskedPaths),
          ro \in SeqsUpTo(ROCandidates, MaxROPaths) :
          /\ nil => (mp = <<>> /\ ro = <<>>)
          /\ linuxPaths = [nil |-> nil, MaskedPaths |-> mp, ReadonlyPaths |-> ro]
    /\ writable \in SUBSET Directories
    /\ \E m \in {"missing", "empty", "data"}, n \in {"empty", "directory"} :
          content = (<<"/", "m">> :> m) @@ (<<"/", "n">> :> n)
    /\ files = {}
    /\ probed = <<>>
    /\ rootErr = PathNil
    /\ maskedErr = PathNil
    /\ roErr = PathNil

\* The "root filesystem" check.
PathsRootFS ==
    /\ pathPc = "rootfs"
    /\ LET r == validateRootFS(files) IN
          /\ rootErr' = r.err
          /\ files' = r.files
          /\ probed' = probed \o r.probed
    /\ pathPc' = "masked"
    /\ UNCHANGED <<rootReadonly, linuxPaths, writable, content, maskedErr, roErr>>
    /\ UNCHANGED notPathVars

\* The "masked paths" check.
PathsMasked ==
    /\ pathPc = "masked"
    /\ maskedErr' = validateMaskedPaths
    /\ pathPc' = "ropaths"
    /\ UNCHANGED <<rootReadonly, linuxPaths, writable, content, files, probed, rootErr, roErr>>
    /\ UNCHANGED notPathVars

\* The "read only paths" check.
PathsReadonly ==
    /\ pathPc = "ropaths"
    /\ LET r == validateROPaths(files) IN
          /\ roErr' = r.err
          /\ files' = r.files
          /\ probed' = probed \o r.probed
    /\ pathPc' = "done"
    /\ UNCHANGED <<rootReadonly, linuxPaths, writable, content, rootErr, maskedErr>>
    /\ UNCHANGED notPathVars

NextPaths ==
    \/ PathsRootFS
    \/ PathsMasked
    \/ PathsReadonly

SpecPaths == InitPaths /\ [][NextPaths]_vars

-----------------------------------------------------------------------------
(* Claims C16 to C18, over SpecPaths.                                      *)

\* The masked-path check has returned; the read-only-paths check has.
MaskedDone == pathPc \in {"ropaths", "done"}
RootFSDone == pathPc \in {"masked", "ropaths", "done"}
PathsDone == pathPc = "done"

\* A masked path passes: it opens, and the read of one byte is end-of-data.
MaskedPasses(path) == content[path] = "empty"

\* The first declared masked path that does not pass, 0 when all pass.
FirstUnmasked ==
    LET bad == {i \in DOMAIN linuxPaths.MaskedPaths : ~MaskedPasses(linuxPaths.MaskedPaths[i])}
    IN  IF bad = {} THEN 0 ELSE CHOOSE i \in bad : \A j \in bad : i <= j

\* C16: the masked-path check passes iff every declared masked path opens
\* and reads end-of-data at once; the first path that does not is the one
\* reported, and a path that gives a byte is reported "should not be readable".
C16_MaskedPathPassesIffEndOfData ==
    MaskedDone =>
        /\ maskedErr.kind = "nil" <=> FirstUnmasked = 0
        /\ FirstUnmasked # 0 =>
              /\ maskedErr.path = linuxPaths.MaskedPaths[FirstUnmasked]
              /\ content[maskedErr.path] = "data"
                    => maskedErr.kind = "should not be readable"

\* C16 witness: the first masked path reads end-of-data, the second gives a
\* byte and is reported.
C16_Witness ==
    /\ MaskedDone
    /\ Len(linuxPaths.MaskedPaths) = 2
    /\ content[linuxPaths.MaskedPaths[1]] = "empty"
    /\ content[linuxPaths.MaskedPaths[2]] = "data"
    /\ maskedErr = PathError("should not be readable", linuxPaths.MaskedPaths[2])

\* The directory a declared path names.
DirectoryOf(path) ==
    CASE path = <<"/">> -> <<"/">>
      [] path \in {<<"/", "a">>, <<"/", "a", "/">>} -> <<"/", "a">>
      [] path = <<"/", "b">> -> <<"/", "b">>

\* The write probe succeeds in the directory of a path.
ProbeSucceeds(path) == DirectoryOf(path) \in writable

\* C17: the read-only-paths check fails iff the write probe succeeds for
\* some declared read-only path; the root check fails iff the root is declared
\* read-only and the probe at / succeeds, and without that declaration no
\* probe is made.
C17_ReadonlyFailsIffProbeSucceeds ==
    /\ PathsDone =>
          (roErr.kind # "nil" <=>
              \E i \in DOMAIN linuxPaths.ReadonlyPaths :
                  ProbeSucceeds(linuxPaths.ReadonlyPaths[i]))
    /\ RootFSDone =>
          /\ rootErr.kind # "nil" <=> (rootReadonly /\ ProbeSucceeds(<<"/">>))
          /\ (~rootReadonly /\ pathPc = "masked") => probed = <<>>

\* C17 witness: the first read-only path cannot be written, the second can,
\* and the root, declared read-only, cannot.
C17_Witness ==
    /\ PathsDone
    /\ rootReadonly
    /\ rootErr.kind = "nil"
    /\ Len(linuxPaths.ReadonlyPaths) = 2
    /\ ~ProbeSucceeds(linuxPaths.ReadonlyPaths[1])
    /\ ProbeSucceeds(linuxPaths.ReadonlyPaths[2])
    /\ roErr = PathError("should be readonly", linuxPaths.ReadonlyPaths[2])
    /\ Len(probed) = 3

\* C18: a temporary file that a write probe created does not exist any more
\* once the check has returned, whatever the probed directory.
C18_ProbeFilesRemoved ==
    \A i \in DOMAIN probed : probed[i].created # <<>> => probed[i].created \notin files

-----------------------------------------------------------------------------
(* mountMatch and validateMountsExist (main.go, lines 577-628).  The       *)
(* destination and the source of a mount are sequences of characters.      *)

MntNil == [kind |-> "nil", level |-> Must, mount |-> <<>>]
MntError(kind, level, mount) == [kind |-> kind, level |-> level, mount |-> mount]

\* lines 577-591 without the comparison of the sources.
mountMatchNoSource(specMount, sysMount) ==
    IF Clean(specMount.Destination) # sysMount.Destination THEN "destination"
    ELSE IF specMount.Type # sysMount.Type THEN "type"
    ELSE "nil"

\* lines 577-591: "nil", or what differs.
mountMatch(specMount, sysMount) ==
    IF Clean(specMount.Destination) # sysMount.Destination THEN "destination"
    ELSE IF specMount.Type # sysMount.Type THEN "type"
    ELSE IF Clean(specMount.Source) # sysMount.Source THEN "source"
    ELSE "nil"

\* lines 599-607: mountsMap[key], the records at a mountpoint in live order.
mountsMap(infos, key) ==
    LET at == SelectSeq(infos, LAMBDA mi : mi.Mountpoint = key) IN
    [i \in DOMAIN at |-> [Destination |-> at[i].Mountpoint, Type |-> at[i].Fstype,
                          Source |-> at[i].Source]]

\* lines 609-625: the loop over spec.Mounts, from the i-th on.
RECURSIVE validateMountsExistFrom(_, _, _)
validateMountsExistFrom(specs, infos, i) ==
    IF i > Len(specs) THEN MntNil
    ELSE IF specs[i].Type = "bind" \/ specs[i].Type = "rbind"
         THEN validateMountsExistFrom(specs, infos, i + 1)
    ELSE LET sys == mountsMap(infos, Clean(specs[i].Destination)) IN
         IF \E j \in DOMAIN sys : mountMatch(specs[i], sys[j]) = "nil"
         THEN validateMountsExistFrom(specs, infos, i + 1)
         ELSE MntError("does not exist", Must, specs[i])

\* lines 593-628.
validateMountsExist ==
    IF mountTable.err THEN MntError("getmounts", Must, <<>>)
    ELSE validateMountsExistFrom(declaredMounts, mountTable.infos, 1)

\* The longest list of declared mounts and the longest live table.
MaxDeclaredMounts == 2
MaxLiveRecords == 2

Mount(destination, type, source) ==
    [Destination |-> destination, Type |-> type, Source |-> source]
Info(mountpoint, fstype, source) ==
    [Mountpoint |-> mountpoint, Fstype |-> fstype, Source |-> source]

\* Declared mounts: /p proc proc; /p/ proc proc; /d tmpfs tmpfs; /d bind /s;
\* /d rbind /s; /d ext4 /s/; /d tmpfs with no source.
DeclaredMountCases ==
    {Mount(<<"/", "p">>, "proc", <<"p", "r", "o", "c">>), Mount(<<"/", "p", "/">>, "proc", <<"p", "r", "o", "c">>),
     Mount(<<"/", "d">>, "tmpfs", <<"t", "m", "p", "f", "s">>), Mount(<<"/", "d">>, "bind", <<"/", "s">>),
     Mount(<<"/", "d">>, "rbind", <<"/", "s">>), Mount(<<"/", "d">>, "ext4", <<"/", "s", "/">>),
     Mount(<<"/", "d">>, "tmpfs", <<>>)}

\* Live records: /p proc proc; /p tmpfs tmpfs; /d tmpfs tmpfs; /d ext4 /s;
\* /d tmpfs with no source.
LiveRecords ==
    {Info(<<"/", "p">>, "proc", <<"p", "r", "o", "c">>), Info(<<"/", "p">>, "tmpfs", <<"t", "m", "p", "f", "s">>),
     Info(<<"/", "d">>, "tmpfs", <<"t", "m", "p", "f", "s">>), Info(<<"/", "d">>, "ext4", <<"/", "s">>),
     Info(<<"/", "d">>, "tmpfs", <<>>)}

InitMountsExist ==
    /\ IdleButMnt
    /\ mntPc = "start"
    /\ declaredMounts \in SeqsUpTo(DeclaredMountCases, MaxDeclaredMounts)
    /\ mountTable \in {[err |-> FALSE, infos |-> is] : is \in SeqsUpTo(LiveRecords, MaxLiveRecords)}
                      \cup {[err |-> TRUE, infos |-> <<>>]}
    /\ mntErr = MntNil

\* The "mounts" check.
MountsExist ==
    /\ mntPc = "start"
    /\ mntErr' = validateMountsExist
    /\ mntPc' = "done"
    /\ UNCHANGED <<declaredMounts, mountTable>>
    /\ UNCHANGED notMntVars

NextMountsExist == MountsExist

SpecMountsExist == InitMountsExist /\ [][NextMountsExist]_vars

-----------------------------------------------------------------------------
(* Claim C19, over SpecMountsExist.                                        *)

\* The canonical form of the declared destinations and sources.
Canonical(path) ==
    CASE path = <<"/", "p", "/">> -> <<"/", "p">>
      [] path = <<"/", "s", "/">> -> <<"/", "s">>
      [] path = <<>> -> <<".">>
      [] OTHER -> path

\* A declared mount has a live record with its canonical destination, its
\* type and its canonical source.
HasLiveRecord(m) ==
    \E j \in DOMAIN mountTable.infos :
        /\ mountTable.infos[j].Mountpoint = Canonical(m.Destination)
        /\ mountTable.infos[j].Fstype = m.Type
        /\ mountTable.infos[j].Source = Canonical(m.Source)

EveryDeclaredMountExists ==
    \A i \in DOMAIN declaredMounts :
        declaredMounts[i].Type \notin {"bind", "rbind"} => HasLiveRecord(declaredMounts[i])

\* C19 as stated: the mount-existence check passes iff every declared mount
\* that is neither bind nor rbind has a live record with the canonical
\* destination, the type and the canonical source.
C19_PassesIffEveryMountHasRecord ==
    mntPc = "done" => (mntErr.kind = "nil" <=> EveryDeclaredMountExists)

\* C19 amended: that holds when the live mount table can be read; when it
\* cannot, the check fails whatever is declared.
C19_PassesIffReadableAndEveryMountHasRecord ==
    mntPc = "done" =>
        (mntErr.kind = "nil" <=> (~mountTable.err /\ EveryDeclaredMountExists))

\* C19 witness: a destination and a source that need cleaning are matched
\* by the second record at the mountpoint, next to a bind mount without one.
C19_Witness ==
    /\ mntPc = "done"
    /\ mntErr.kind = "nil"
    /\ declaredMounts = <<Mount(<<"/", "d">>, "ext4", <<"/", "s", "/">>), Mount(<<"/", "d">>, "bind", <<"/", "s">>)>>
    /\ mountTable.infos = <<Info(<<"/", "d">>, "tmpfs", <<"t", "m", "p", "f", "s">>), Info(<<"/", "d">>, "ext4", <<"/", "s">>)>>

-----------------------------------------------------------------------------
(* validateDefaultFS (main.go, lines 321-341) over the defaultFS table     *)
(* (lines 37-42).  Mountpoints and types are compared as they are.         *)

defaultFS ==
    ("/proc" :> "proc") @@ ("/sys" :> "sysfs") @@ ("/dev/pts" :> "devpts")
    @@ ("/dev/shm" :> "tmpfs")

\* lines 329-332: mountsMap[key] after the loop, the type of the last record
\* at the mountpoint; "" when there is none.
lastFstype(infos, key) ==
    LET at == {i \in DOMAIN infos : infos[i].Mountpoint = key} IN
    IF at = {} THEN ""
    ELSE infos[CHOOSE i \in at : \A j \in at : j <= i].Fstype

\* lines 324-327: the error of GetMounts is not returned; the records are
\* then none.
defaultFSInfos == IF mountTable.err THEN <<>> ELSE mountTable.infos

\* lines 334-338: the entries of defaultFS that make the loop return.
defaultFSMissing ==
    {fs \in DOMAIN defaultFS : lastFstype(defaultFSInfos, fs) # defaultFS[fs]}

\* The longest live table of this check.
MaxDefaultFSRecords == 5

\* Live records: the four of defaultFS, a tmpfs over /proc, a tmpfs at /tmp.
DefaultFSRecords ==
    {Info("/proc", "proc", "proc"), Info("/sys", "sysfs", "sysfs"),
     Info("/dev/pts", "devpts", "devpts"), Info("/dev/shm", "tmpfs", "shm"),
     Info("/proc", "tmpfs", "tmpfs"), Info("/tmp", "tmpfs", "tmpfs")}

InitDefaultFS ==
    /\ IdleButMnt
    /\ mntPc = "start"
    /\ declaredMounts = <<>>
    /\ mountTable \in {[err |-> FALSE, infos |-> is] :
                          is \in SeqsUpTo(DefaultFSRecords, MaxDefaultFSRecords)}
                      \cup {[err |-> TRUE, infos |-> <<>>]}
    /\ mntErr = MntNil

\* The "default file system" check; the order of the loop over the map
\* defaultFS is not fixed, so any of the missing entries may be the one named.
DefaultFS ==
    /\ mntPc = "start"
    /\ IF defaultFSMissing = {}
       THEN mntErr' = MntNil
       ELSE \E fs \in defaultFSMissing :
               mntErr' = MntError("SHOULD exist", DefaultFilesystemsLevel, fs)
    /\ mntPc' = "done"
    /\ UNCHANGED <<declaredMounts, mountTable>>
    /\ UNCHANGED notMntVars

NextDefaultFS == DefaultFS

SpecDefaultFS == InitDefaultFS /\ [][NextDefaultFS]_vars

\* C20: the default-filesystems check passes iff each pair of the fixed
\* table is present as a record of the live mount table, whatever other
\* records the table holds at those mountpoints.
C20_PassesIffEveryPairPresent ==
    mntPc = "done" =>
        (mntErr.kind = "nil" <=>
            \A fs \in {"/proc", "/sys", "/dev/pts", "/dev/shm"} :
                \E i \in DOMAIN mountTable.infos :
                    /\ mountTable.infos[i].Mountpoint = fs
                    /\ mountTable.infos[i].Fstype = defaultFS[fs])

-----------------------------------------------------------------------------
(* validateDefaultDevices (main.go, lines 421-439) and the package variable *)
(* defaultDevices (lines 51-59) it ranges over and assigns to.              *)

DevicePaths == {DefaultDevices[i] : i \in DOMAIN DefaultDevices} \cup {"/dev/console"}

DefaultDevicesNil == [kind |-> "nil", device |-> ""]
DefaultDevicesError(kind, device) == [kind |-> kind, device |-> device]

\* lines 425-436: the loop over the list, from the i-th on.
RECURSIVE validateDefaultDevicesFrom(_, _)
validateDefaultDevicesFrom(devices, i) ==
    IF i > Len(devices) THEN DefaultDevicesNil
    ELSE CASE nodes[devices[i]] = "missing" -> DefaultDevicesError("not found", devices[i])
           [] nodes[devices[i]] = "denied" -> DefaultDevicesError("stat", devices[i])
           [] nodes[devices[i]] = "file" -> DefaultDevicesError("is not a device", devices[i])
           [] OTHER -> validateDefaultDevicesFrom(devices, i + 1)

\* lines 421-439, for a configuration with spec.Process.Terminal = t: line
\* 423 assigns the appended list to the package variable, and the loop of
\* line 425 ranges over the package variable.
validateDefaultDevices(t, list) ==
    LET appended == IF t THEN Append(list, "/dev/console") ELSE list IN
    [defaultDevices |-> appended, ranged |-> appended,
     err |-> validateDefaultDevicesFrom(appended, 1)]

\* The live device nodes: all of them devices, but one path.
NodesBut(path, what) == [p \in DevicePaths |-> IF p = path THEN what ELSE "device"]

NodeCases ==
    {NodesBut("/dev/null", "device"), NodesBut("/dev/null", "missing"),
     NodesBut("/dev/console", "missing"), NodesBut("/dev/console", "file"),
     NodesBut("/dev/tty", "file"), NodesBut("/dev/ptmx", "denied")}

\* The most calls of validateDefaultDevices in one process.
MaxInvocations == 4

InitDefaultDevices ==
    /\ IdleButReg
    /\ regPc = "run"
    /\ terminal = FALSE
    /\ nodes \in NodeCases
    /\ defaultDevices = DefaultDevices
    /\ regRun = 1
    /\ regCalled = {}
    /\ regOutcomes = <<>>
    /\ devCalls = <<>>

\* One call of validateDefaultDevices(spec), with any configuration.
DefaultDevicesCall ==
    /\ regPc = "run"
    /\ Len(devCalls) < MaxInvocations
    /\ \E t \in BOOLEAN :
          LET r == validateDefaultDevices(t, defaultDevices) IN
          /\ terminal' = t
          /\ defaultDevices' = r.defaultDevices
          /\ devCalls' = Append(devCalls, [terminal |-> t, ranged |-> r.ranged, err |-> r.err])
    /\ UNCHANGED <<regPc, nodes, regRun, regCalled, regOutcomes>>
    /\ UNCHANGED notRegVars

NextDefaultDevices == DefaultDevicesCall

SpecDefaultDevices == InitDefaultDevices /\ [][NextDefaultDevices]_vars

\* The fixed list of the default-devices check, and the terminal-only path.
FixedDevices ==
    {"/dev/null", "/dev/zero", "/dev/full", "/dev/random", "/dev/urandom",
     "/dev/tty", "/dev/ptmx"}

Required(call) == {call.ranged[i] : i \in DOMAIN call.ranged}

\* C24: in every call of the default-devices check the paths required are
\* the fixed list, and /dev/console iff the configuration of that call asks
\* for a terminal, whatever was called before; and the fixed list itself is
\* never changed.
C24_RequiredSetIsFixedListPlusConsole ==
    /\ \A i \in DOMAIN devCalls :
          Required(devCalls[i]) =
              FixedDevices \cup (IF devCalls[i].terminal THEN {"/dev/console"} ELSE {})
    /\ Required([ranged |-> defaultDevices]) = FixedDevices

-----------------------------------------------------------------------------
(* The loops of run (main.go, lines 726-748) over the checks that are      *)
(* modelled with their state: the filesystem that the write probes change, *)
(* the live mount table, the device nodes and the package variable         *)
(* defaultDevices.  The configuration has a process object.                *)

ConcreteChecks ==
    {"root filesystem", "default file system", "default devices", "masked paths",
     "read only paths"}

\* Those checks in the order of the registry.
concreteValidations ==
    SelectSeq(defaultValidations \o linuxValidations, LAMBDA d : d \in ConcreteChecks)

\* The next check of the registry that the current run has not called.
nextValidation ==
    LET left == {i \in DOMAIN concreteValidations : concreteValidations[i] \notin regCalled}
    IN  concreteValidations[CHOOSE i \in left : \A j \in left : i <= j]

\* The most runs of the registry.
MaxRuns == 2

\* What the registry over these checks leaves alone.
notRegistryVars == <<runnerVars, capVars, moVars, idVars, prVars, devVars, genVars, mpVars>>

\* What is recorded for a check that a run has not called yet.
NotCalled == [kind |-> "not called"]

\* v.test(spec) may be called: in registry order, or in any order.
RegMayCall(check, inOrder) ==
    /\ regPc = "run"
    /\ check \notin regCalled
    /\ inOrder => check = nextValidation

\* The call has returned out.
RegReturn(check, out) ==
    /\ regOutcomes' = [regOutcomes EXCEPT ![<<regRun, check>>] = out]
    /\ regCalled' = regCalled \cup {check}
    /\ regPc' = IF regCalled' = ConcreteChecks THEN "returned" ELSE "run"
    /\ UNCHANGED <<regRun, terminal, nodes, devCalls>>
    /\ UNCHANGED <<pathPc, rootReadonly, linuxPaths, writable, content, rootErr, maskedErr, roErr>>
    /\ UNCHANGED mntVars
    /\ UNCHANGED notRegistryVars

RegRootFS(inOrder) ==
    /\ RegMayCall("root filesystem", inOrder)
    /\ LET r == validateRootFS(files) IN
          /\ files' = r.files
          /\ probed' = probed \o r.probed
          /\ RegReturn("root filesystem", r.err)
    /\ UNCHANGED defaultDevices

\* The order of the loop over the map defaultFS is not fixed.
RegDefaultFS(inOrder) ==
    /\ RegMayCall("default file system", inOrder)
    /\ IF defaultFSMissing = {}
       THEN RegReturn("default file system", MntNil)
       ELSE \E fs \in defaultFSMissing :
               RegReturn("default file system",
                         MntError("SHOULD exist", DefaultFilesystemsLevel, fs))
    /\ UNCHANGED <<files, probed, defaultDevices>>

RegDefaultDevices(inOrder) ==
    /\ RegMayCall("default devices", inOrder)
    /\ LET r == validateDefaultDevices(terminal, defaultDevices) IN
          /\ defaultDevices' = r.defaultDevices
          /\ RegReturn("default devices", r.err)
    /\ UNCHANGED <<files, probed>>

RegMaskedPaths(inOrder) ==
    /\ RegMayCall("masked paths", inOrder)
    /\ RegReturn("masked paths", validateMaskedPaths)
    /\ UNCHANGED <<files, probed, defaultDevices>>

RegROPaths(inOrder) ==
    /\ RegMayCall("read only paths", inOrder)
    /\ LET r == validateROPaths(files) IN
          /\ files' = r.files
          /\ probed' = probed \o r.probed
          /\ RegReturn("read only paths", r.err)
    /\ UNCHANGED defaultDevices

\* The program is started again: a new process, whose package variables are
\* as declared, in the same live environment.
RegRunAgain ==
    /\ regPc = "returned"
    /\ regRun < MaxRuns
    /\ regRun' = regRun + 1
    /\ regCalled' = {}
    /\ defaultDevices' = DefaultDevices
    /\ regPc' = "run"
    /\ UNCHANGED <<terminal, nodes, regOutcomes, devCalls>>
    /\ UNCHANGED pathVars
    /\ UNCHANGED mntVars
    /\ UNCHANGED notRegistryVars

\* Live mount tables: complete; /sys missing; /sys and /dev/shm missing;
\* unreadable.
RegMountTables ==
    {[err |-> FALSE, infos |-> <<Info("/proc", "proc", "proc"), Info("/sys", "sysfs", "sysfs"),
                                 Info("/dev/pts", "devpts", "devpts"), Info("/dev/shm", "tmpfs", "shm")>>],
     [err |-> FALSE, infos |-> <<Info("/proc", "proc", "proc"),
                                 Info("/dev/pts", "devpts", "devpts"), Info("/dev/shm", "tmpfs", "shm")>>],
     [err |-> FALSE, infos |-> <<Info("/proc", "proc", "proc"), Info("/dev/pts", "devpts", "devpts")>>],
     [err |-> TRUE, infos |-> <<>>]}

\* Declared masked paths: /m, and a path under the read-only path /a.
RegMaskedPathCases ==
    {<<>>, <<<<"/", "m">>>>, <<<<"/", "a", "/", "Test1">>>>,
     <<<<"/", "a", "/", "Test1">>, <<"/", "m">>>>}

\* Declared read-only paths.
RegROPathCases == {<<>>, <<<<"/", "a">>>>, <<<<"/", "b">>, <<"/", "a">>>>}

InitRegistry ==
    /\ RunnerIdle /\ CapIdle /\ MoIdle /\ IdIdle /\ PrIdle /\ DevIdle /\ GenIdle /\ MpIdle
    /\ pathPc = "idle"
    /\ rootReadonly \in BOOLEAN
    /\ \E nil \in BOOLEAN :
       \E mp \in RegMaskedPathCases, ro \in RegROPathCases :
          /\ nil => (mp = <<>> /\ ro = <<>>)
          /\ linuxPaths = [nil |-> nil, MaskedPaths |-> mp, ReadonlyPaths |-> ro]
    /\ writable \in SUBSET {<<"/">>, <<"/", "a">>}
    /\ \E m \in {"empty", "data"} :
          content = (<<"/", "m">> :> m) @@ (<<"/", "a", "/", "Test1">> :> "missing")
    /\ files = {}
    /\ probed = <<>>
    /\ rootErr = PathNil
    /\ maskedErr = PathNil
    /\ roErr = PathNil
    /\ mntPc = "idle"
    /\ declaredMounts = <<>>
    /\ mountTable \in RegMountTables
    /\ mntErr = MntNil
    /\ regPc = "run"
    /\ terminal \in BOOLEAN
    /\ nodes \in {NodesBut("/dev/null", "device"), NodesBut("/dev/console", "missing"),
                  NodesBut("/dev/tty", "file")}
    /\ defaultDevices = DefaultDevices
    /\ regRun = 1
    /\ regCalled = {}
    /\ regOutcomes = [k \in (1..MaxRuns) \X ConcreteChecks |-> NotCalled]
    /\ devCalls = <<>>

\* The program run, and run again, against the same live environment.
NextRerun ==
    \/ RegRootFS(TRUE)
    \/ RegDefaultFS(TRUE)
    \/ RegDefaultDevices(TRUE)
    \/ RegMaskedPaths(TRUE)
    \/ RegROPaths(TRUE)
    \/ RegRunAgain

SpecRerun == InitRegistry /\ [][NextRerun]_vars

\* The test functions called once each, in any order.
NextPermuted ==
    \/ RegRootFS(FALSE)
    \/ RegDefaultFS(FALSE)
    \/ RegDefaultDevices(FALSE)
    \/ RegMaskedPaths(FALSE)
    \/ RegROPaths(FALSE)

SpecPermuted == InitRegistry /\ [][NextPermuted]_vars

-----------------------------------------------------------------------------
(* Claims C21 and C25, over the registry of concrete checks.               *)

Returned(run, check) == regOutcomes[<<run, check>>] # NotCalled

\* C21: a check that has returned in two runs of the program, against the
\* same live environment and configuration, has returned the same both
\* times: nil twice, or the same error twice.
C21_RerunYieldsSameOutcomes ==
    \A check \in ConcreteChecks :
        \A r1, r2 \in 1..MaxRuns :
            (Returned(r1, check) /\ Returned(r2, check))
                => regOutcomes[<<r1, check>>] = regOutcomes[<<r2, check>>]

\* What a check returns when it is the first to run, from the live
\* environment and the configuration alone.
FirstWritable ==
    LET ro == linuxPaths.ReadonlyPaths
        w == {i \in DOMAIN ro : ProbeSucceeds(ro[i])}
    IN  IF w = {} THEN 0 ELSE CHOOSE i \in w : \A j \in w : i <= j

WhenFirst(check, out) ==
    CASE check = "root filesystem" ->
            out = IF rootReadonly /\ ProbeSucceeds(<<"/">>)
                  THEN PathError("Rootfs should be readonly", <<"/">>) ELSE PathNil
      [] check = "read only paths" ->
            out = IF FirstWritable = 0 THEN PathNil
                  ELSE PathError("should be readonly", linuxPaths.ReadonlyPaths[FirstWritable])
      [] check = "masked paths" ->
            out = IF FirstUnmasked = 0 THEN PathNil
                  ELSE LET path == linuxPaths.MaskedPaths[FirstUnmasked] IN
                       PathError(IF content[path] = "missing" THEN "open"
                                 ELSE "should not be readable", path)
      [] check = "default file system" ->
            IF defaultFSMissing = {} THEN out = MntNil
            ELSE \E fs \in defaultFSMissing :
                    out = MntError("SHOULD exist", DefaultFilesystemsLevel, fs)
      [] check = "default devices" ->
            out = validateDefaultDevices(terminal, DefaultDevices).err

\* C25: with the live environment and the configuration fixed, a check
\* returns what it returns when it runs first, whichever of the other checks
\* have run before it.
C25_OutcomeIndependentOfOrder ==
    \A check \in ConcreteChecks :
        Returned(1, check) => WhenFirst(check, regOutcomes[<<1, check>>])

-----------------------------------------------------------------------------
(* setupSpec of the generate command (cmd/ocitools/generate.go): the       *)
(* seccomp flags, lines 327-386.  A flag that is not set is <<>>; the      *)
(* flag seccomp-default, when set, is <<value>>.  The generator's          *)
(* functions are those of the package generate.                            *)

\* The actions the generator accepts, and the architectures.
SeccompActions == {"SCMP_ACT_KILL", "SCMP_ACT_ERRNO", "SCMP_ACT_ALLOW"}
SeccompArchs == {"SCMP_ARCH_X86", "SCMP_ARCH_ARM"}

Generated(sc) == [seccomp |-> sc, err |-> "nil"]

\* g.SetLinuxSeccompDefault(sd)
SetLinuxSeccompDefault(sc, sd) ==
    IF sd \in SeccompActions
    THEN Generated([sc EXCEPT !.DefaultAction = sd])
    ELSE [seccomp |-> sc, err |-> "seccomp-default"]

\* g.AddLinuxSeccompArch(arch)
AddLinuxSeccompArch(sc, arch) ==
    IF arch \in SeccompArchs
    THEN Generated([sc EXCEPT !.Architectures = Append(@, arch)])
    ELSE [seccomp |-> sc, err |-> "seccomp-arch"]

\* g.AddLinuxSeccompSyscall(syscall), for an argument Name:Action.
AddLinuxSeccompSyscall(sc, syscall) ==
    IF syscall.Action \in SeccompActions
    THEN Generated([sc EXCEPT !.Syscalls = Append(@, syscall)])
    ELSE [seccomp |-> sc, err |-> "seccomp-syscalls"]

\* g.AddLinuxSeccompSyscallAllow(s) and g.AddLinuxSeccompSyscallErrno(s)
AddLinuxSeccompSyscallAllow(sc, name) ==
    [sc EXCEPT !.Syscalls = Append(@, [Name |-> name, Action |-> "SCMP_ACT_ALLOW"])]
AddLinuxSeccompSyscallErrno(sc, name) ==
    [sc EXCEPT !.Syscalls = Append(@, [Name |-> name, Action |-> "SCMP_ACT_ERRNO"])]

\* lines 355-361 and 364-370: a loop that returns at the first error.
RECURSIVE addEach(_, _, _, _)
addEach(Add(_, _), r, values, i) ==
    IF r.err # "nil" \/ i > Len(values) THEN r
    ELSE addEach(Add, Add(r.seccomp, values[i]), values, i + 1)

\* lines 372-384: loops without an error.
RECURSIVE addNames(_, _, _, _)
addNames(Add(_, _), sc, names, i) ==
    IF i > Len(names) THEN sc
    ELSE addNames(Add, Add(sc, names[i]), names, i + 1)

\* lines 327-386 without the return of lines 346-348.
setupSeccompWithoutReturn(f, sc) ==
    LET d == IF f.default # <<>> THEN SetLinuxSeccompDefault(sc, f.default[1])
             ELSE Generated(sc)
        a == addEach(AddLinuxSeccompArch, d, f.arch, 1)
        c == addEach(AddLinuxSeccompSyscall, a, f.syscalls, 1)
    IN  IF c.err # "nil" THEN c
        ELSE Generated(addNames(AddLinuxSeccompSyscallErrno,
                                addNames(AddLinuxSeccompSyscallAllow, c.seccomp, f.allow, 1),
                                f.errno, 1))

\* lines 327-386.
setupSeccomp(f, sc) ==
    LET sd == IF f.default # <<>> THEN f.default[1] ELSE ""
    IN  IF sd = "" /\ Len(f.arch) = 0 /\ Len(f.syscalls) = 0
        THEN Generated(sc)
        ELSE setupSeccompWithoutReturn(f, sc)

\* The values of the flags.
SeccompFlags ==
    [default : {<<>>, <<"">>, <<"SCMP_ACT_KILL">>, <<"bogus">>},
     arch : {<<>>, <<"SCMP_ARCH_X86">>, <<"SCMP_ARCH_X86", "mips">>},
     syscalls : {<<>>, <<[Name |-> "read", Action |-> "SCMP_ACT_KILL"]>>,
                 <<[Name |-> "read", Action |-> ""]>>},
     allow : {<<>>, <<"open">>, <<"open", "close">>},
     errno : {<<>>, <<"ptrace">>}]

InitGenerate ==
    /\ IdleButGen
    /\ genPc = "setup"
    /\ flags \in SeccompFlags
    /\ seccomp = [DefaultAction |-> "", Architectures |-> <<>>, Syscalls |-> <<>>]
    /\ genErr = "nil"

\* setupSpec, from line 327 to its return.
SetupSpec ==
    /\ genPc = "setup"
    /\ LET r == setupSeccomp(flags, seccomp) IN
          /\ seccomp' = r.seccomp
          /\ genErr' = r.err
    /\ genPc' = "done"
    /\ UNCHANGED flags
    /\ UNCHANGED notGenVars

NextGenerate == SetupSpec

SpecGenerate == InitGenerate /\ [][NextGenerate]_vars

\* C26: when setupSpec has returned without an error, every name given with
\* seccomp-allow is among the generated syscalls with the action allow, and
\* every name given with seccomp-errno with the action errno, whichever of
\* seccomp-default, seccomp-arch and seccomp-syscalls are set.
C26_AllowAndErrnoAlwaysAdded ==
    (genPc = "done" /\ genErr = "nil") =>
        /\ \A i \in DOMAIN flags.allow :
              \E j \in DOMAIN seccomp.Syscalls :
                  seccomp.Syscalls[j] = [Name |-> flags.allow[i], Action |-> "SCMP_ACT_ALLOW"]
        /\ \A i \in DOMAIN flags.errno :
              \E j \in DOMAIN seccomp.Syscalls :
                  seccomp.Syscalls[j] = [Name |-> flags.errno[i], Action |-> "SCMP_ACT_ERRNO"]

-----------------------------------------------------------------------------
(* isMountPoint (earlier revision, lines 481-514), statement by statement. *)
(* Positions are counted from 1, so mpPathindex 0 stands for the -1 of the   *)
(* code, and mounts[mpPathindex+1:] are the positions after mpPathindex.       *)

\* lines 485-490 with a break at the first record at path.
firstOccurrence(path, infos) ==
    LET at == {i \in DOMAIN infos : infos[i].Mountpoint = path} IN
    IF at = {} THEN 0 ELSE CHOOSE i \in at : \A j \in at : i <= j

\* lines 484-490: mpPathindex after the loop, the last record at path.
lastOccurrence(path, infos) ==
    LET at == {i \in DOMAIN infos : infos[i].Mountpoint = path} IN
    IF at = {} THEN 0 ELSE CHOOSE i \in at : \A j \in at : j <= i

\* The longest live mount sequence.
MaxScanned == 4

\* Paths and live mountpoints: /, /a, /a/b, /ab, /b.
MpPaths ==
    {<<"/">>, <<"/", "a">>, <<"/", "a", "/", "b">>, <<"/", "a", "b">>, <<"/", "b">>}

InitIsMountPoint ==
    /\ IdleButMp
    /\ mpPc = "start"
    /\ mpPath \in MpPaths
    /\ mpInfos \in {[i \in DOMAIN ps |-> [Mountpoint |-> ps[i]]] :
                       ps \in SeqsUpTo(MpPaths, MaxScanned)}
    /\ mpMounts = <<>>
    /\ mpPathindex = 0
    /\ mpIdx = 1
    /\ mpHasParent = FALSE
    /\ mpResult = "none"

\* lines 482-497: the first loop, and the return when path is not listed.
IsMountPointFind ==
    /\ mpPc = "start"
    /\ mpMounts' = [i \in DOMAIN mpInfos |-> mpInfos[i].Mountpoint]
    /\ mpPathindex' = lastOccurrence(mpPath, mpInfos)
    /\ IF mpPathindex' = 0
       THEN mpPc' = "done" /\ mpResult' = "false" /\ UNCHANGED mpIdx
       ELSE mpPc' = "scan" /\ mpIdx' = mpPathindex' + 1 /\ UNCHANGED mpResult
    /\ mpHasParent' = FALSE
    /\ UNCHANGED <<mpPath, mpInfos>>
    /\ UNCHANGED notMpVars

\* lines 498-510: one iteration of the loop over mounts[mpPathindex+1:].
IsMountPointScan ==
    /\ mpPc = "scan"
    /\ mpIdx <= Len(mpMounts)
    /\ LET other == mpMounts[mpIdx] IN
       IF other = mpPath
       THEN /\ mpHasParent' = FALSE
            /\ mpIdx' = mpIdx + 1
            /\ UNCHANGED <<mpPc, mpResult>>
       ELSE LET p == isParent(other, mpPath) IN
            IF p = "panic"
            THEN /\ mpPc' = "done"
                 /\ mpResult' = "panic"
                 /\ UNCHANGED <<mpHasParent, mpIdx>>
            ELSE /\ mpHasParent' = (mpHasParent \/ p = "true")
                 /\ mpIdx' = mpIdx + 1
                 /\ UNCHANGED <<mpPc, mpResult>>
    /\ UNCHANGED <<mpPath, mpInfos, mpMounts, mpPathindex>>
    /\ UNCHANGED notMpVars

\* line 513: return !mpHasParent, nil
IsMountPointReturn ==
    /\ mpPc = "scan"
    /\ mpIdx > Len(mpMounts)
    /\ mpResult' = IF mpHasParent THEN "false" ELSE "true"
    /\ mpPc' = "done"
    /\ UNCHANGED <<mpPath, mpInfos, mpMounts, mpPathindex, mpIdx, mpHasParent>>
    /\ UNCHANGED notMpVars

NextIsMountPoint ==
    \/ IsMountPointFind
    \/ IsMountPointScan
    \/ IsMountPointReturn

SpecIsMountPoint == InitIsMountPoint /\ [][NextIsMountPoint]_vars

\* The positions of the live sequence strictly after the last record at P.
AfterLast(P) ==
    {i \in DOMAIN mpInfos :
        \A j \in DOMAIN mpInfos : mpInfos[j].Mountpoint = P => j < i}

Occurs(P) == \E i \in DOMAIN mpInfos : mpInfos[i].Mountpoint = P

\* C27: isMountPoint returns true iff the path occurs in the live sequence
\* and no record strictly after its last occurrence lies at a strict ancestor
\* of it; it returns false otherwise, and so also when the path does not
\* occur; records at descendants or at unrelated paths play no part.
C27_ActiveIffNotShadowed ==
    mpPc = "done" =>
        /\ mpResult \in {"true", "false"}
        /\ mpResult = "true" <=>
              /\ Occurs(mpPath)
              /\ \A i \in AfterLast(mpPath) :
                    ~StrictAncestor(mpInfos[i].Mountpoint, mpPath)

\* C30: the scan starts after the last record at the path, so the record it
\* is at is never at the path (the branch that resets mpHasParent is never
\* taken), and mpHasParent, once true, stays true until the scan has ended.
C30_ResetNeverTaken ==
    /\ [](mpPc = "scan" => \A i \in mpIdx..Len(mpMounts) : mpMounts[i] # mpPath)
    /\ [][(mpPc = "scan" /\ mpHasParent) => mpHasParent']_vars

\* C30 witness: over a sequence that lists the path twice, the scan has
\* gone over the two records after the second, the first of them at an
\* ancestor, and has ended with mpHasParent still set.
C30_Witness ==
    /\ mpPc = "done"
    /\ mpResult = "false"
    /\ mpHasParent
    /\ mpPathindex = 2
    /\ mpIdx = 5
    /\ mpMounts[1] = mpPath
    /\ isParent(mpMounts[3], mpPath) = "true"
    /\ isParent(mpMounts[4], mpPath) = "false"

====
